---- MODULE Spec2Model ----
(***************************************************************************)
(* File system of os-course-design (src/filesystem.py): the bitmap         *)
(* allocator, the inode table with direct and one-level indirect block     *)
(* lists, the virtual disk, and the FileSystem operations create_file,     *)
(* read_file, modify_block_content, write_file, delete_file, acquire_file  *)
(* and release_file.                                                       *)
(*                                                                         *)
(* File contents are symbolic: a content is a record [id, len]; the disk   *)
(* block written from bytes content[k*64 : (k+1)*64] is the value          *)
(* Chunk(content, k).  Block and index arithmetic is the code's.           *)
(***************************************************************************)
EXTENDS Integers, Sequences, FiniteSets, TLC

\* ------------------------------------------------------------- constants
BLOCK_SIZE == 64
DATA_START == 35
INODE_START == 3
MAX_FILENAME == 20
DIRECT_BLOCKS == 10
\* IndexBlock holds 16 indices (struct format '<' + 'i' * 16)
INDEX_ENTRIES == 16
WRITE == 2

\* --------------------------------------------------------------- bounds
\* The volume is scaled down: the source formats 1024 blocks and 32 inodes.
TOTAL_BLOCKS == 65
MAX_INODES == 3
\* largest reference count acquire_file is driven to
MaxRef == 1
\* number of FileSystem calls in a run
MaxOps == 3
\* number of buffer pages (the source's default is 16)
BUFFER_SIZE == 2
\* number of BufferManager calls in a run
MaxBufOps == 4
\* number of requests submitted to the AsyncIOManager in a run
MaxRequests == 2
\* largest executor pool (the source's default max_workers is 4)
MaxWorkers == 2
\* number of PCBs created through create_process in a run
MaxProcesses == 3
\* number of submit_process calls in a run
MaxSubmits == 3
\* capacity of the pipe (the source's default buffer_size is 1024)
PipeCapacity == 2
\* number of threads that call Pipe.write and Pipe.read
PipeThreads == 2
\* number of Pipe.write and Pipe.read calls in a run
MaxPipeCalls == 4
\* largest reference count acquire_file is driven to where the inode record
\* is checked (the record keeps three bits of it)
MaxHolders == 8
\* number of FileSystem calls in a run that checks the inode record
MaxInodeCalls == 10

\* number of threads that call into the FileSystem, the BufferManager, the
\* VirtualDisk and the AsyncIOManager at once
LockThreads == 2
\* number of calls those threads begin in a run
MaxLockCalls == 3

\* the block number standing for every block number past the end of the volume
OOR == TOTAL_BLOCKS

Max(a, b) == IF a >= b THEN a ELSE b
Min(a, b) == IF a <= b THEN a ELSE b
CeilDiv(a, b) == (a + b - 1) \div b

\* [v, v, ..., v] of length n
Rep(v, n) == [i \in 1..n |-> v]

\* s[:n]
Take(s, n) == SubSeq(s, 1, Min(n, Len(s)))
\* s[n:]
Drop(s, n) == SubSeq(s, Min(n, Len(s)) + 1, Len(s))

\* [b for b in s if b >= 0]
NonNeg(s) == SelectSeq(s, LAMBDA b : b >= 0)

\* ----------------------------------------------------------------- inputs
NameA == <<97>>
\* a filename of MAX_FILENAME + 1 characters
NameLong == Rep(120, MAX_FILENAME + 1)
\* its first MAX_FILENAME characters
NameLong20 == Rep(120, MAX_FILENAME)
Names == {NameA, NameLong20, NameLong}

\* content lengths: 0, two blocks, 10*B, 10*B+1, 26*B, 26*B+1
Lengths == {0, 100, DIRECT_BLOCKS * BLOCK_SIZE, DIRECT_BLOCKS * BLOCK_SIZE + 1,
            (DIRECT_BLOCKS + INDEX_ENTRIES) * BLOCK_SIZE,
            (DIRECT_BLOCKS + INDEX_ENTRIES) * BLOCK_SIZE + 1}
\* a content: its identity and its length in bytes
Content(id, len) == [id |-> id, len |-> len]
\* what create_file and write_file are given
Contents == {Content(1, len) : len \in Lengths}
\* what modify_block_content is given
ModifyContents == {Content(2, 100)}
\* block indexes modify_block_content is called with
ModifyIndexes == {-1, 0, 10}
\* create_file's (content, permission): rw- for every content, r-- for one
CreateInputs == {<<c, 6>> : c \in Contents} \cup {<<Content(1, 100), 4>>}

\* ------------------------------------------------------------ disk blocks
\* A block of the backing store, by what was last written to it.
Blk(kind, cid, clen, k, idx) ==
    [kind |-> kind, cid |-> cid, clen |-> clen, k |-> k, idx |-> idx]
\* 64 zero bytes (create_disk)
Zero == Blk("zero", 0, 0, 0, <<>>)
\* a read past the end of the backing file returns b''
Absent == Blk("absent", 0, 0, 0, <<>>)
SuperBlk == Blk("super", 0, 0, 0, <<>>)
BitmapBlk == Blk("bitmap", 0, 0, 0, <<>>)
INodeBlk == Blk("inode", 0, 0, 0, <<>>)

\* content[k*BLOCK_SIZE : (k+1)*BLOCK_SIZE] as write_block stores it
\* (data[:BLOCK_SIZE].ljust(BLOCK_SIZE, b'\x00'))
Chunk(c, k) ==
    IF k * BLOCK_SIZE >= c.len THEN Zero
    ELSE Blk("data", c.id, c.len, k, <<>>)

\* number of content bytes in a block before its zero padding
ValidBytes(v) ==
    IF v.kind = "data" THEN Min(BLOCK_SIZE, v.clen - v.k * BLOCK_SIZE) ELSE 0

\* IndexBlock.to_bytes of indices
IndexBlk(indices) == Blk("index", 0, 0, 0, indices)

\* IndexBlock.from_bytes: the 16 little-endian 32-bit words of a block.  A
\* block of zeros holds 16 zeros.  Content bytes are text: every word that
\* holds a content byte is a number past the end of the volume.
IndexBlock_from_bytes(v) ==
    CASE v.kind = "index" -> v.idx
      [] v.kind = "zero" -> Rep(0, INDEX_ENTRIES)
      [] v.kind = "data" ->
            Rep(OOR, CeilDiv(ValidBytes(v), 4))
                \o Rep(0, INDEX_ENTRIES - CeilDiv(ValidBytes(v), 4))

\* ----------------------------------------------------------------- state
VARIABLES
    inodes,      \* FileSystem.inodes: slot -> INode
    bits,        \* Bitmap.bits, as the set of block numbers whose bit is set
    superblock,  \* FileSystem.superblock: free_blocks, free_inodes
    disk,        \* the backing store: block number -> block
    disk_inodes, \* the inode records last saved to blocks INODE_START..
    disk_bits,   \* the bitmap last saved to blocks 1..2
    disk_super,  \* the superblock last written to block 0
    ops          \* number of FileSystem calls made so far

VARIABLES
    pages,           \* BufferManager.pages: page id -> BufferPage
    lru_order,       \* BufferManager.lru_order: page ids, oldest first
    hit_count,       \* BufferManager.hit_count
    miss_count,      \* BufferManager.miss_count
    writeback_count, \* BufferManager.writeback_count
    bops             \* number of BufferManager calls made so far

VARIABLES
    requests,           \* AsyncIOManager.requests: request id -> IORequest
    request_queue,      \* AsyncIOManager.request_queue: the (priority, id) in it
    request_id_counter, \* AsyncIOManager.request_id_counter
    submitting,         \* the submit_* calls in progress: request built, next step
    dispatcher,         \* the id _worker_loop has dequeued and not yet looked up; 0: none
    work_queue,         \* the executor's queue of _process_request calls
    active,             \* the _process_request calls the executor's threads are in
    fired,              \* the ids the completion callback was called with, in order
    callback_errors,    \* the ids whose completion callback raised (the error line printed)
    max_workers,        \* AsyncIOManager.max_workers
    running             \* AsyncIOManager.running: start() has been called

VARIABLES
    processes,         \* PriorityScheduler.processes: pid -> ProcessControlBlock
    ready_queues,      \* PriorityScheduler.ready_queues: Priority -> pids, head first
    running_pcb,       \* PriorityScheduler.running: the pid of the PCB; 0: None
    pid_counter,       \* PriorityScheduler.pid_counter
    scheduler_running, \* PriorityScheduler.scheduler_running
    scheduler_pc,      \* where the scheduler thread is in _scheduler_loop
    pcb,               \* the local pcb of _scheduler_loop: a pid; 0: None
    sops               \* number of submit_process calls made so far

VARIABLES
    pipe_buffer,  \* Pipe.buffer, oldest item first
    closed,       \* Pipe.closed
    write_count,  \* Pipe.write_count
    read_count,   \* Pipe.read_count
    not_empty,    \* the waiters of Pipe.not_empty, in the order they began to wait
    not_full,     \* the waiters of Pipe.not_full, in the order they began to wait
    pipe_threads, \* thread -> the Pipe call it is in, where it is, what it returned
    written,      \* the data of the writes that returned True, in append order
    delivered,    \* the data the reads returned, in the order they returned
    pcalls        \* number of Pipe.write and Pipe.read calls made so far

VARIABLES
    lock_prog,   \* thread -> the lock operations its call has still to make
    lock_held,   \* thread -> the locks it holds, in the order it took them
    lock_order,  \* the pairs (held, taken): a thread took `taken` holding `held`
    lock_calls   \* number of calls begun so far

fsvars == <<inodes, bits, superblock, disk, disk_inodes, disk_bits,
            disk_super, ops>>
bufvars == <<pages, lru_order, hit_count, miss_count, writeback_count, bops>>
asyncvars == <<requests, request_queue, request_id_counter, submitting,
               dispatcher, work_queue, active, fired, callback_errors,
               max_workers, running>>
schedvars == <<processes, ready_queues, running_pcb, pid_counter,
               scheduler_running, scheduler_pc, pcb, sops>>
pipevars == <<pipe_buffer, closed, write_count, read_count, not_empty,
              not_full, pipe_threads, written, delivered, pcalls>>
lockvars == <<lock_prog, lock_held, lock_order, lock_calls>>
vars == <<fsvars, bufvars, asyncvars, schedvars, pipevars, lockvars>>

Slots == 0..(MAX_INODES - 1)
DataRegion == DATA_START..(TOTAL_BLOCKS - 1)

\* INode(): the dataclass defaults
INode ==
    [is_used |-> FALSE, filename |-> <<>>, file_size |-> 0, permission |-> 6,
     ref_count |-> 0, direct_blocks |-> Rep(-1, DIRECT_BLOCKS),
     indirect_block |-> -1]

\* a record that keeps two bits of ref_count
INode_to_bytes_two_bits(inode) ==
    [inode EXCEPT !.filename = Take(inode.filename, MAX_FILENAME),
                  !.permission = inode.permission % 8,
                  !.ref_count = inode.ref_count % 4]
\* INode.to_bytes: the fields as the 64-byte record keeps them
INode_to_bytes(inode) ==
    [inode EXCEPT !.filename = Take(inode.filename, MAX_FILENAME),
                  !.permission = inode.permission % 8,
                  !.ref_count = inode.ref_count % 8]

\* the id byte of the record: struct.pack('<B', self.inode_id)
id_byte(inode_id) == inode_id % 256

\* INode.from_bytes(data, inode_id) of a record with the given id byte: the
\* fields are read back as stored, the id is the slot's whatever the id
\* byte says.  is_directory is False in every inode the FileSystem builds.
INode_from_bytes(data, stored_id, inode_id) ==
    [inode_id |-> IF stored_id = inode_id THEN stored_id ELSE inode_id,
     is_directory |-> FALSE,
     is_used |-> data.is_used,
     filename |-> data.filename,
     file_size |-> data.file_size,
     permission |-> data.permission,
     ref_count |-> data.ref_count,
     direct_blocks |-> data.direct_blocks,
     indirect_block |-> data.indirect_block]

\* the inode of a slot with the two fields the FileSystem never changes
InSlot(inode, slot) ==
    [inode_id |-> slot,
     is_directory |-> FALSE,
     is_used |-> inode.is_used,
     filename |-> inode.filename,
     file_size |-> inode.file_size,
     permission |-> inode.permission,
     ref_count |-> inode.ref_count,
     direct_blocks |-> inode.direct_blocks,
     indirect_block |-> inode.indirect_block]

\* what FileSystem.inodes keeps of a loaded inode
Loaded(r) ==
    [is_used |-> r.is_used, filename |-> r.filename, file_size |-> r.file_size,
     permission |-> r.permission, ref_count |-> r.ref_count,
     direct_blocks |-> r.direct_blocks, indirect_block |-> r.indirect_block]

\* ---------------------------------------------------------------- Bitmap
set_used(b, block_num) ==
    IF 0 <= block_num /\ block_num < TOTAL_BLOCKS THEN b \cup {block_num} ELSE b

set_free(b, block_num) ==
    IF 0 <= block_num /\ block_num < TOTAL_BLOCKS THEN b \ {block_num} ELSE b

is_free(b, block_num) ==
    0 <= block_num /\ block_num < TOTAL_BLOCKS /\ block_num \notin b

\* set_free over a list of block numbers
RECURSIVE set_free_all(_, _)
set_free_all(b, blocks) ==
    IF blocks = <<>> THEN b
    ELSE set_free_all(set_free(b, Head(blocks)), Tail(blocks))

RECURSIVE FirstFree(_, _)
FirstFree(b, i) ==
    IF i >= TOTAL_BLOCKS THEN -1
    ELSE IF is_free(b, i) THEN i
    ELSE FirstFree(b, i + 1)

\* Bitmap.allocate_block: the first free block at or after DATA_START, marked
\* used; -1 when there is none.  [block, bits]
\* from: a block number with no free block in DATA_START..from-1 (the scan
\* over those finds nothing, so it starts at from)
allocate_block_from(b, from) ==
    LET i == FirstFree(b, from)
    IN  IF i = -1 THEN [block |-> -1, bits |-> b]
        ELSE [block |-> i, bits |-> set_used(b, i)]

allocate_block(b) == allocate_block_from(b, DATA_START)

\* the loop of allocate_blocks; every block below the one just allocated is
\* used, so the next allocate_block finds its block after it
RECURSIVE allocate_loop(_, _, _)
allocate_loop(b, count, blocks) ==
    IF count <= 0 THEN [blocks |-> blocks, bits |-> b]
    ELSE LET a == allocate_block_from(
                      b, IF blocks = <<>> THEN DATA_START
                         ELSE blocks[Len(blocks)] + 1)
         IN  IF a.block = -1
             THEN [blocks |-> <<>>, bits |-> set_free_all(b, blocks)]
             ELSE allocate_loop(a.bits, count - 1, Append(blocks, a.block))

\* allocate_blocks without the rollback: on a shortfall the blocks taken so
\* far stay marked used
RECURSIVE allocate_loop_leaky(_, _, _)
allocate_loop_leaky(b, count, blocks) ==
    IF count <= 0 THEN [blocks |-> blocks, bits |-> b]
    ELSE LET a == allocate_block(b)
         IN  IF a.block = -1 THEN [blocks |-> <<>>, bits |-> b]
             ELSE allocate_loop_leaky(a.bits, count - 1,
                                      Append(blocks, a.block))

allocate_blocks_leaky(b, count) == allocate_loop_leaky(b, count, <<>>)

\* Bitmap.allocate_blocks: [blocks, bits]
allocate_blocks(b, count) == allocate_loop(b, count, <<>>)

free_blocks_count(b) == Cardinality({i \in DataRegion : is_free(b, i)})

\* ----------------------------------------------------------- VirtualDisk
InodeBlocks == INODE_START..(INODE_START + MAX_INODES - 1)

\* The backing file right after format_disk (create_disk writes zeros, then
\* the superblock, the bitmap and the inode records are written).  The
\* variable disk keeps the blocks that differ from this.
FormattedBlock(block_num) ==
    IF block_num = 0 THEN SuperBlk
    ELSE IF block_num \in {1, 2} THEN BitmapBlk
    ELSE IF block_num \in InodeBlocks THEN INodeBlk
    ELSE IF block_num >= OOR THEN Absent
    ELSE Zero

\* VirtualDisk.read_block: seek and read; past the end of the file, b''
read_block(d, block_num) ==
    IF Min(block_num, OOR) \in DOMAIN d THEN d[Min(block_num, OOR)]
    ELSE FormattedBlock(block_num)

\* VirtualDisk.write_block: seek and write, no range check
write_block(d, block_num, v) ==
    LET n == Min(block_num, OOR)
    IN  IF v = FormattedBlock(n)
        THEN [b \in DOMAIN d \ {n} |-> d[b]]
        ELSE [b \in DOMAIN d \cup {n} |-> IF b = n THEN v ELSE d[b]]

\* f.seek(block_num * BLOCK_SIZE) raises OSError (EINVAL) on a negative
\* offset and accepts every other one
seek_raises(block_num) == block_num < 0

\* VirtualDisk.read_block as a call: whether it raised, and what it returned
try_read_block(d, block_num) ==
    IF seek_raises(block_num) THEN [raised |-> TRUE, data |-> Absent]
    ELSE [raised |-> FALSE, data |-> read_block(d, block_num)]

\* VirtualDisk.write_block as a call: whether it raised, and the backing
\* store it left
try_write_block(d, block_num, v) ==
    IF seek_raises(block_num) THEN [raised |-> TRUE, disk |-> d]
    ELSE [raised |-> FALSE, disk |-> write_block(d, block_num, v)]

\* ------------------------------------------------------------ FileSystem
\* The FileSystem object: the fields the operations read and write.
Cur ==
    [inodes |-> inodes, bits |-> bits, superblock |-> superblock, disk |-> disk,
     disk_inodes |-> disk_inodes, disk_bits |-> disk_bits,
     disk_super |-> disk_super]

\* what an operation returns (Tuple[bool, str]) with the FileSystem after it;
\* msg "raised": the call ended in an exception instead of returning
Ret(s, ok, msg) == [fs |-> s, ok |-> ok, msg |-> msg]

\* for each slot i: self.disk.write_block(INODE_START + i, inode.to_bytes())
RECURSIVE write_inode_blocks(_, _)
write_inode_blocks(d, i) ==
    IF i >= MAX_INODES THEN d
    ELSE write_inode_blocks(write_block(d, INODE_START + i, INodeBlk), i + 1)

\* FileSystem._save_inodes
save_inodes(s) ==
    [s EXCEPT !.disk = write_inode_blocks(s.disk, 0),
              !.disk_inodes = [i \in Slots |-> INode_to_bytes(s.inodes[i])]]

\* FileSystem._save_bitmap
save_bitmap(s) ==
    [s EXCEPT !.disk = write_block(write_block(s.disk, 1, BitmapBlk),
                                   2, BitmapBlk),
              !.disk_bits = s.bits]

\* self.superblock.free_blocks = self.bitmap.free_blocks_count();
\* self.disk.write_block(SUPERBLOCK_START, self.superblock.to_bytes())
save_superblock(s) ==
    LET sb == [s.superblock EXCEPT !.free_blocks = free_blocks_count(s.bits)]
    IN  [s EXCEPT !.superblock = sb,
                  !.disk = write_block(s.disk, 0, SuperBlk),
                  !.disk_super = sb]

\* the three saves that end create_file, write_file and delete_file
save_metadata(s) == save_superblock(save_bitmap(save_inodes(s)))

\* FileSystem._find_inode: the slot of the first used inode with this
\* filename, -1 for None
RECURSIVE find_from(_, _, _)
find_from(ins, filename, i) ==
    IF i >= MAX_INODES THEN -1
    ELSE IF ins[i].is_used /\ ins[i].filename = filename THEN i
    ELSE find_from(ins, filename, i + 1)

find_inode(ins, filename) == find_from(ins, filename, 0)

\* FileSystem._allocate_inode: the slot taken, -1 for None
RECURSIVE unused_from(_, _)
unused_from(ins, i) ==
    IF i >= MAX_INODES THEN -1
    ELSE IF ~ins[i].is_used THEN i
    ELSE unused_from(ins, i + 1)

allocate_inode(s) ==
    LET i == unused_from(s.inodes, 0)
    IN  IF i = -1 THEN [slot |-> -1, fs |-> s]
        ELSE [slot |-> i,
              fs |-> [s EXCEPT !.inodes[i].is_used = TRUE,
                               !.superblock.free_inodes = @ - 1]]

\* the ordered block list of an inode: direct, then the indirect block's
\* indices (read from the disk), each filtered by b >= 0
all_blocks_of(s, inode) ==
    NonNeg(inode.direct_blocks)
        \o (IF inode.indirect_block >= 0
            THEN NonNeg(IndexBlock_from_bytes(
                            read_block(s.disk, inode.indirect_block)))
            ELSE <<>>)

\* for i, block_num in enumerate(all_blocks):
\*     self.disk.write_block(block_num, content[i*BLOCK_SIZE:(i+1)*BLOCK_SIZE])
RECURSIVE write_content(_, _, _, _)
write_content(d, blocks, content, i) ==
    IF i >= Len(blocks) THEN d
    ELSE write_content(write_block(d, blocks[i + 1], Chunk(content, i)),
                       blocks, content, i + 1)

\* blocks_needed rounded down instead of up
blocks_for_floor(len) ==
    IF len \div BLOCK_SIZE = 0 THEN 1 ELSE len \div BLOCK_SIZE

\* blocks_needed = (len(content) + BLOCK_SIZE - 1) // BLOCK_SIZE, minimum 1
blocks_for(len) ==
    IF CeilDiv(len, BLOCK_SIZE) = 0 THEN 1 ELSE CeilDiv(len, BLOCK_SIZE)

\* idx_block.indices[:len(extra)] = extra on [-1] * 16: a slice assignment,
\* which lengthens the list when extra has more than 16 entries
indices_with(extra) ==
    extra \o Rep(-1, Max(0, INDEX_ENTRIES - Len(extra)))

\* struct.pack('<' + 'i' * 16, *indices) raises struct.error unless there
\* are exactly 16 indices
pack_raises(indices) == Len(indices) # INDEX_ENTRIES

\* create_file from "# 写入文件内容" on: write the content, fill in the
\* inode, save the metadata
create_finish(s, slot, all_blocks, filename, content, permission) ==
    LET d == write_content(s.disk, all_blocks, content, 0)
        s1 == [s EXCEPT !.disk = d,
                        !.inodes[slot].filename = Take(filename, MAX_FILENAME),
                        !.inodes[slot].file_size = content.len,
                        !.inodes[slot].permission = permission,
                        !.inodes[slot].ref_count = 0]
    IN  Ret(save_metadata(s1), TRUE, "ok")

\* create_file, the branch "blocks_needed > DIRECT_BLOCKS + 1"
create_indirect(s, slot, blocks_needed, filename, content, permission) ==
    LET a1 == allocate_blocks(s.bits, DIRECT_BLOCKS)
        a2 == allocate_block(a1.bits)
        a3 == allocate_blocks(a2.bits, blocks_needed - DIRECT_BLOCKS - 1)
        indices == indices_with(a3.blocks)
        s1 == [s EXCEPT !.bits = a3.bits,
                        !.inodes[slot].direct_blocks = a1.blocks,
                        !.inodes[slot].indirect_block = a2.block]
    IN  IF Len(a1.blocks) < DIRECT_BLOCKS
        THEN Ret([s EXCEPT !.bits = a1.bits], FALSE, "nospace")
        ELSE IF a2.block = -1
        THEN Ret([s EXCEPT !.bits = set_free_all(a2.bits, a1.blocks)],
                 FALSE, "nospace")
        ELSE IF Len(a3.blocks) < blocks_needed - DIRECT_BLOCKS - 1
        THEN Ret([s EXCEPT !.bits = set_free_all(a3.bits,
                                        Append(a1.blocks, a2.block))],
                 FALSE, "nospace")
        ELSE IF pack_raises(indices)
        THEN Ret(s1, FALSE, "raised")
        ELSE create_finish(
                [s1 EXCEPT !.disk = write_block(s1.disk, a2.block,
                                                IndexBlk(indices))],
                slot, a1.blocks \o a3.blocks, filename, content, permission)

\* create_file, the branch that needs direct blocks only
create_direct(s, slot, blocks_needed, filename, content, permission) ==
    LET a == allocate_blocks(s.bits, blocks_needed)
        s1 == [s EXCEPT !.bits = a.bits,
                        !.inodes[slot].direct_blocks =
                            a.blocks \o Rep(-1, DIRECT_BLOCKS - Len(a.blocks))]
    IN  IF Len(a.blocks) < blocks_needed
        THEN Ret([s EXCEPT !.bits = a.bits], FALSE, "nospace")
        ELSE create_finish(s1, slot, a.blocks, filename, content, permission)

\* FileSystem.create_file
create_file(s, filename, content, permission) ==
    IF \E i \in Slots : s.inodes[i].is_used /\ s.inodes[i].filename = filename
    THEN Ret(s, FALSE, "exists")
    ELSE LET al == allocate_inode(s)
             n == blocks_for(content.len)
             blocks_needed == IF n > DIRECT_BLOCKS THEN n + 1 ELSE n
         IN  IF al.slot = -1 THEN Ret(s, FALSE, "inode_full")
             ELSE IF blocks_needed > DIRECT_BLOCKS + 1
             THEN create_indirect(al.fs, al.slot, blocks_needed,
                                  filename, content, permission)
             ELSE create_direct(al.fs, al.slot, blocks_needed,
                                filename, content, permission)

\* self.disk.read_blocks(all_blocks)[:file_size]: the bytes read, as the
\* sequence of <<block, number of bytes taken from it>>; a block past the
\* end of the backing file gives no bytes
RECURSIVE read_upto(_, _, _, _)
read_upto(d, blocks, i, remaining) ==
    IF i > Len(blocks) \/ remaining <= 0 THEN <<>>
    ELSE LET v == read_block(d, blocks[i])
             size == IF v.kind = "absent" THEN 0 ELSE BLOCK_SIZE
             take == Min(size, remaining)
         IN  (IF take > 0 THEN << <<v, take>> >> ELSE <<>>)
                 \o read_upto(d, blocks, i + 1, remaining - take)

\* FileSystem.read_file: [found, data]; found FALSE is the result None
read_file(s, filename) ==
    LET slot == find_inode(s.inodes, filename)
    IN  IF slot = -1 THEN [found |-> FALSE, data |-> <<>>]
        ELSE [found |-> TRUE,
              data |-> read_upto(s.disk, all_blocks_of(s, s.inodes[slot]), 1,
                                 s.inodes[slot].file_size)]

\* FileSystem.read_block_content: [found, data]; found FALSE is the result
\* None (no such file, or block index out of range); the block is read
\* from the disk
read_block_content(s, filename, block_index) ==
    LET slot == find_inode(s.inodes, filename)
        all_blocks == all_blocks_of(s, s.inodes[slot])
    IN  IF slot = -1 THEN [found |-> FALSE, data |-> Absent]
        ELSE IF block_index < 0 \/ block_index >= Len(all_blocks)
        THEN [found |-> FALSE, data |-> Absent]
        ELSE [found |-> TRUE,
              data |-> read_block(s.disk, all_blocks[block_index + 1])]

\* the bytes of a content, in the form read_file returns bytes
BytesOf(c) ==
    [i \in 1..CeilDiv(c.len, BLOCK_SIZE) |->
        <<Chunk(c, i - 1), Min(BLOCK_SIZE, c.len - (i - 1) * BLOCK_SIZE)>>]

\* the permission check testing the read bit instead of the write bit
has_write_wrong_bit(permission) == (permission \div 4) % 2 = 1

\* inode.permission & Permission.WRITE.value
has_write(permission) == (permission \div WRITE) % 2 = 1

\* FileSystem.modify_block_content
modify_block_content(s, filename, block_index, new_content) ==
    LET slot == find_inode(s.inodes, filename)
        inode == s.inodes[slot]
        all_blocks == all_blocks_of(s, inode)
        block_num == all_blocks[block_index + 1]
        new_potential_size == block_index * BLOCK_SIZE + new_content.len
        s1 == [s EXCEPT !.disk = write_block(s.disk, block_num,
                                             Chunk(new_content, 0)),
                        !.inodes[slot].file_size =
                            IF new_potential_size > @
                            THEN new_potential_size ELSE @]
    IN  IF slot = -1 THEN Ret(s, FALSE, "notfound")
        ELSE IF ~has_write(inode.permission) THEN Ret(s, FALSE, "noperm")
        ELSE IF block_index < 0 \/ block_index >= Len(all_blocks)
        THEN Ret(s, FALSE, "range")
        ELSE Ret(save_inodes(s1), TRUE, "ok")

\* write_file from "# 写入新内容" on: write the content, set the size, save
\* the metadata
write_finish(s, slot, all_blocks, content) ==
    LET d == write_content(s.disk, all_blocks, content, 0)
        s1 == [s EXCEPT !.disk = d, !.inodes[slot].file_size = content.len]
    IN  Ret(save_metadata(s1), TRUE, "ok")

\* write_file, the branch "new_blocks_needed <= old_blocks_count"
write_shrink(s, slot, new_blocks_needed, old_blocks, content) ==
    LET inode == s.inodes[slot]
        old_indirect_block == inode.indirect_block
        blocks_to_use == Take(old_blocks, new_blocks_needed)
        blocks_to_free == Drop(old_blocks, new_blocks_needed)
        drop_indirect == new_blocks_needed <= DIRECT_BLOCKS
                            /\ old_indirect_block >= 0
        b1 == set_free_all(s.bits, blocks_to_free)
        b2 == IF drop_indirect THEN set_free(b1, old_indirect_block) ELSE b1
        indirect == IF drop_indirect THEN -1 ELSE old_indirect_block
        direct == Take(blocks_to_use, DIRECT_BLOCKS)
                    \o Rep(-1, Max(0, DIRECT_BLOCKS - Len(blocks_to_use)))
        indices == indices_with(Drop(blocks_to_use, DIRECT_BLOCKS))
        s1 == [s EXCEPT !.bits = b2,
                        !.inodes[slot].indirect_block = indirect,
                        !.inodes[slot].direct_blocks = direct]
    IN  IF new_blocks_needed > DIRECT_BLOCKS
        THEN IF pack_raises(indices) THEN Ret(s1, FALSE, "raised")
             ELSE write_finish(
                    [s1 EXCEPT !.disk = write_block(s1.disk, indirect,
                                                    IndexBlk(indices))],
                    slot, blocks_to_use, content)
        ELSE write_finish(s1, slot, blocks_to_use, content)

\* write_file, the branch that allocates new blocks
write_grow(s, slot, new_blocks_needed, old_blocks, content) ==
    LET inode == s.inodes[slot]
        old_indirect_block == inode.indirect_block
        need_new_indirect == new_blocks_needed > DIRECT_BLOCKS
                                /\ old_indirect_block < 0
        extra_needed == new_blocks_needed - Len(old_blocks)
                            + (IF need_new_indirect THEN 1 ELSE 0)
        a == allocate_blocks(s.bits, extra_needed)
        \* inode.indirect_block = new_blocks.pop(0)
        indirect == IF need_new_indirect THEN Head(a.blocks)
                    ELSE old_indirect_block
        new_blocks == IF need_new_indirect THEN Tail(a.blocks) ELSE a.blocks
        all_blocks == old_blocks \o new_blocks
        direct == Take(all_blocks, DIRECT_BLOCKS)
                    \o Rep(-1, Max(0, DIRECT_BLOCKS - Len(all_blocks)))
        indices == indices_with(Drop(all_blocks, DIRECT_BLOCKS))
        s1 == [s EXCEPT !.bits = a.bits,
                        !.inodes[slot].indirect_block = indirect,
                        !.inodes[slot].direct_blocks = direct]
    IN  IF Len(a.blocks) < extra_needed
        THEN Ret([s EXCEPT !.bits = set_free_all(a.bits, a.blocks)],
                 FALSE, "nospace")
        ELSE IF new_blocks_needed > DIRECT_BLOCKS
        THEN IF pack_raises(indices) THEN Ret(s1, FALSE, "raised")
             ELSE write_finish(
                    [s1 EXCEPT !.disk = write_block(s1.disk, indirect,
                                                    IndexBlk(indices))],
                    slot, all_blocks, content)
        ELSE write_finish(s1, slot, all_blocks, content)

\* FileSystem.write_file
write_file(s, filename, content) ==
    LET slot == find_inode(s.inodes, filename)
        inode == s.inodes[slot]
        new_blocks_needed == blocks_for(content.len)
        old_blocks == all_blocks_of(s, inode)
    IN  IF slot = -1 THEN Ret(s, FALSE, "notfound")
        ELSE IF ~has_write(inode.permission) THEN Ret(s, FALSE, "noperm")
        ELSE IF inode.ref_count > 0 THEN Ret(s, FALSE, "busy")
        ELSE IF new_blocks_needed <= Len(old_blocks)
        THEN write_shrink(s, slot, new_blocks_needed, old_blocks, content)
        ELSE write_grow(s, slot, new_blocks_needed, old_blocks, content)

\* FileSystem.delete_file
delete_file(s, filename) ==
    LET slot == find_inode(s.inodes, filename)
        inode == s.inodes[slot]
        b1 == set_free_all(s.bits, NonNeg(inode.direct_blocks))
        b2 == IF inode.indirect_block >= 0
              THEN set_free(
                     set_free_all(b1, NonNeg(IndexBlock_from_bytes(
                            read_block(s.disk, inode.indirect_block)))),
                     inode.indirect_block)
              ELSE b1
        s1 == [s EXCEPT !.bits = b2,
                        !.inodes[slot].is_used = FALSE,
                        !.inodes[slot].filename = <<>>,
                        !.inodes[slot].file_size = 0,
                        !.inodes[slot].direct_blocks = Rep(-1, DIRECT_BLOCKS),
                        !.inodes[slot].indirect_block = -1,
                        !.inodes[slot].ref_count = 0,
                        !.superblock.free_inodes = @ + 1]
    IN  IF slot = -1 THEN Ret(s, FALSE, "notfound")
        ELSE IF inode.ref_count > 0 THEN Ret(s, FALSE, "busy")
        ELSE Ret(save_metadata(s1), TRUE, "ok")

\* FileSystem.acquire_file
acquire_file(s, filename) ==
    LET slot == find_inode(s.inodes, filename)
    IN  IF slot = -1 THEN Ret(s, FALSE, "notfound")
        ELSE Ret(save_inodes([s EXCEPT !.inodes[slot].ref_count = @ + 1]),
                 TRUE, "ok")

\* FileSystem.release_file
release_file(s, filename) ==
    LET slot == find_inode(s.inodes, filename)
    IN  IF slot # -1 /\ s.inodes[slot].ref_count > 0
        THEN Ret(save_inodes([s EXCEPT !.inodes[slot].ref_count = @ - 1]),
                 TRUE, "ok")
        ELSE Ret(s, FALSE, "notfound")

\* FileSystem.mount on an existing, formatted disk file: the superblock,
\* the bitmap and the inodes are read back from their blocks
mount(s) ==
    Ret([s EXCEPT !.superblock = s.disk_super,
                  !.bits = s.disk_bits,
                  !.inodes = [i \in Slots |->
                      Loaded(INode_from_bytes(s.disk_inodes[i], id_byte(i), i))]],
        TRUE, "ok")

\* ========================================================= BufferManager
\* src/buffer.py.  Every public method runs inside `with self.condition`
\* (a reentrant lock), so each is one step.  A page keeps block_num,
\* filename, data, is_dirty, is_valid and access_time; owner_pid, load_time
\* and access_count are written but never read by the methods and are left
\* out.  time.time() is the number of load_block calls made so far
\* (hit_count + miss_count): every call that stamps a page makes one.
Pages == 0..(BUFFER_SIZE - 1)

\* BufferPage(page_id=i)
BufferPage ==
    [block_num |-> -1, filename |-> <<>>, data |-> Zero,
     is_dirty |-> FALSE, is_valid |-> FALSE, access_time |-> 0]

\* time.time()
Now(b) == b.hit_count + b.miss_count

\* The BufferManager and the block store under it.  log lists the
\* (block, data) pairs the call in progress has written to the block store.
BufCur ==
    [pages |-> pages, lru_order |-> lru_order, hit_count |-> hit_count,
     miss_count |-> miss_count, writeback_count |-> writeback_count,
     disk |-> disk, log |-> <<>>]

\* what a BufferManager method leaves and returns; raised: an exception
\* left the method
BufRet(b, page_id, data, hit, raised) ==
    [buf |-> b, page_id |-> page_id, data |-> data, hit |-> hit,
     raised |-> raised]

\* first page id >= i satisfying the test, in dict order; -1 for None
RECURSIVE free_from(_, _)
free_from(pgs, i) ==
    IF i >= BUFFER_SIZE THEN -1
    ELSE IF ~pgs[i].is_valid THEN i
    ELSE free_from(pgs, i + 1)

\* BufferManager._find_free_page
find_free_page(b) == free_from(b.pages, 0)

\* BufferManager._find_lru_page
find_lru_page(b) == IF b.lru_order = <<>> THEN -1 ELSE Head(b.lru_order)

\* a removal that leaves the order as it is
remove_from_lru_keep(lru, page_id) == lru

\* BufferManager._remove_from_lru
remove_from_lru(lru, page_id) == SelectSeq(lru, LAMBDA q : q # page_id)

\* first in, first out: a page already in the order stays where it is
update_fifo(lru, page_id) ==
    IF \E i \in 1..Len(lru) : lru[i] = page_id THEN lru
    ELSE Append(lru, page_id)

\* BufferManager._update_lru: move_to_end, or insert at the end
update_lru(lru, page_id) == Append(remove_from_lru(lru, page_id), page_id)

\* self.fs.disk.write_block(page.block_num, page.data); writeback_count += 1
write_back(b, page_id) ==
    [b EXCEPT !.disk = write_block(@, b.pages[page_id].block_num,
                                   b.pages[page_id].data),
              !.writeback_count = @ + 1,
              !.log = Append(@, <<b.pages[page_id].block_num,
                                  b.pages[page_id].data>>)]

\* an eviction that drops the page without writing it back
evict_page_drop(b, page_id) ==
    [b EXCEPT !.pages[page_id] =
                  [BufferPage EXCEPT !.access_time = b.pages[page_id].access_time],
              !.lru_order = remove_from_lru(@, page_id)]

\* BufferManager._evict_page
evict_page(b, page_id) ==
    IF ~b.pages[page_id].is_valid THEN b
    ELSE LET b1 == IF b.pages[page_id].is_dirty THEN write_back(b, page_id)
                   ELSE b
         IN  [b1 EXCEPT !.pages[page_id] =
                            [BufferPage EXCEPT !.access_time =
                                 b.pages[page_id].access_time],
                        !.lru_order = remove_from_lru(@, page_id)]

\* a scan that finds no page
cached_never(pgs, filename, block_num, i) == -1

\* the scan of load_block for a valid page of (filename, block_num)
RECURSIVE cached_from(_, _, _, _)
cached_from(pgs, filename, block_num, i) ==
    IF i >= BUFFER_SIZE THEN -1
    ELSE IF pgs[i].is_valid /\ pgs[i].block_num = block_num
              /\ pgs[i].filename = filename THEN i
    ELSE cached_from(pgs, filename, block_num, i + 1)

\* load_block after a miss, into page_id (free, or just evicted).  A
\* negative block number makes VirtualDisk.read_block seek before the start
\* of the file, which raises OSError.
load_into(b, page_id, filename, block_num) ==
    IF block_num < 0 THEN BufRet(b, -1, Absent, FALSE, TRUE)
    ELSE LET data == read_block(b.disk, block_num)
         IN  BufRet([b EXCEPT !.pages[page_id] =
                                  [block_num |-> block_num,
                                   filename |-> filename, data |-> data,
                                   is_dirty |-> FALSE, is_valid |-> TRUE,
                                   access_time |-> Now(b)],
                              !.lru_order = update_lru(@, page_id)],
                    page_id, data, FALSE, FALSE)

\* BufferManager.load_block
load_block(b, filename, block_num) ==
    LET hit == cached_from(b.pages, filename, block_num, 0)
        b1 == [b EXCEPT !.miss_count = @ + 1]
        free == find_free_page(b1)
        lru == find_lru_page(b1)
    IN  IF hit # -1
        THEN BufRet([b EXCEPT !.hit_count = @ + 1,
                              !.pages[hit].access_time = Now(b) + 1,
                              !.lru_order = update_lru(@, hit)],
                    hit, b.pages[hit].data, TRUE, FALSE)
        ELSE IF free # -1 THEN load_into(b1, free, filename, block_num)
        ELSE IF lru = -1 THEN BufRet(b1, -1, Absent, FALSE, FALSE)
        ELSE load_into(evict_page(b1, lru), lru, filename, block_num)

\* a write_block that also writes the block to the block store
buffer_write_through(b, filename, block_num, content) ==
    LET r == load_block(b, filename, block_num)
    IN  IF r.raised \/ r.page_id = -1
        THEN [buf |-> r.buf, ok |-> FALSE, raised |-> r.raised]
        ELSE [buf |-> [r.buf EXCEPT !.pages[r.page_id].data = Chunk(content, 0),
                                    !.pages[r.page_id].is_dirty = TRUE,
                                    !.pages[r.page_id].access_time = Now(r.buf),
                                    !.disk = write_block(@, block_num,
                                                         Chunk(content, 0))],
              ok |-> TRUE, raised |-> FALSE]

\* BufferManager.write_block: [buf, ok, raised]
buffer_write_block(b, filename, block_num, content) ==
    LET r == load_block(b, filename, block_num)
    IN  IF r.raised THEN [buf |-> r.buf, ok |-> FALSE, raised |-> TRUE]
        ELSE IF r.page_id = -1
        THEN [buf |-> r.buf, ok |-> FALSE, raised |-> FALSE]
        ELSE [buf |-> [r.buf EXCEPT !.pages[r.page_id].data = Chunk(content, 0),
                                    !.pages[r.page_id].is_dirty = TRUE,
                                    !.pages[r.page_id].access_time = Now(r.buf)],
              ok |-> TRUE, raised |-> FALSE]

\* a flush that looks at the first page only
flush_first_only(b, all, filename, i) ==
    IF b.pages[0].is_valid /\ b.pages[0].is_dirty
          /\ (all \/ b.pages[0].filename = filename)
    THEN [write_back(b, 0) EXCEPT !.pages[0].is_dirty = FALSE]
    ELSE b

\* the loop of flush_all (all = TRUE) and of flush_file (all = FALSE)
RECURSIVE flush_from(_, _, _, _)
flush_from(b, all, filename, i) ==
    IF i >= BUFFER_SIZE THEN b
    ELSE IF b.pages[i].is_valid /\ b.pages[i].is_dirty
              /\ (all \/ b.pages[i].filename = filename)
    THEN flush_from([write_back(b, i) EXCEPT !.pages[i].is_dirty = FALSE],
                    all, filename, i + 1)
    ELSE flush_from(b, all, filename, i + 1)

\* BufferManager.flush_all
flush_all(b) == flush_from(b, TRUE, <<>>, 0)

\* BufferManager.flush_file
flush_file(b, filename) == flush_from(b, FALSE, filename, 0)

\* the loop of invalidate_file; block_num, filename and data stay in the
\* page
RECURSIVE invalidate_from(_, _, _)
invalidate_from(b, filename, i) ==
    IF i >= BUFFER_SIZE THEN b
    ELSE IF b.pages[i].is_valid /\ b.pages[i].filename = filename
    THEN LET b1 == IF b.pages[i].is_dirty THEN write_back(b, i) ELSE b
         IN  invalidate_from(
                 [b1 EXCEPT !.pages[i].is_valid = FALSE,
                            !.pages[i].is_dirty = FALSE,
                            !.lru_order = remove_from_lru(@, i)],
                 filename, i + 1)
    ELSE invalidate_from(b, filename, i + 1)

\* BufferManager.invalidate_file
invalidate_file(b, filename) == invalidate_from(b, filename, 0)

\* ======================================================== AsyncIOManager
\* src/async_io.py.  A submit_* call is three steps: the id (under the
\* lock), the table entry (under the lock), the put.  _worker_loop is two:
\* the get, then the look-up that marks the request RUNNING and hands it to
\* the executor.  _process_request is one step per call into the
\* FileSystem or the BufferManager (each runs under that object's lock),
\* then the status, then the callback.
Ids == 1..MaxRequests

\* IORequest.result: None, a bool, or bytes (as read_file's bytes)
NoResult == [kind |-> "none", ok |-> FALSE, data |-> <<>>]
BoolResult(ok) == [kind |-> "bool", ok |-> ok, data |-> <<>>]
BytesResult(data) == [kind |-> "bytes", ok |-> TRUE, data |-> data]

\* an IORequest whose status starts as RUNNING
IORequest_running(request_id, io_type, filename, block_index, data, priority) ==
    [request_id |-> request_id, io_type |-> io_type, filename |-> filename,
     block_index |-> block_index, data |-> data, status |-> "RUNNING",
     result |-> NoResult, error |-> "", priority |-> priority]

\* IORequest(...): status PENDING, result None, error None ("")
IORequest(request_id, io_type, filename, block_index, data, priority) ==
    [request_id |-> request_id, io_type |-> io_type, filename |-> filename,
     block_index |-> block_index, data |-> data, status |-> "PENDING",
     result |-> NoResult, error |-> "", priority |-> priority]

\* tuple order of the PriorityQueue entries (priority, request_id)
Before(e, f) == e[1] < f[1] \/ (e[1] = f[1] /\ e[2] <= f[2])

\* a queue that hands out the entry put first
queue_get_fifo(q) == CHOOSE e \in q : \A f \in q : e[2] <= f[2]

\* PriorityQueue.get: the smallest entry
queue_get(q) == CHOOSE e \in q : \A f \in q : Before(e, f)

\* an executor whose threads take the call submitted last
executor_take_last(q) == [id |-> q[Len(q)], rest |-> SubSeq(q, 1, Len(q) - 1)]

\* ThreadPoolExecutor: a free thread takes the call submitted first
executor_take(q) == [id |-> Head(q), rest |-> Tail(q)]

\* for block_num in all_blocks: self.buffer_mgr.load_block(filename, block_num);
\* raised: a load_block raised and ended the loop
RECURSIVE load_all(_, _, _, _, _)
load_all(b, filename, blocks, i, data) ==
    IF i > Len(blocks) THEN [buf |-> b, data |-> data, raised |-> FALSE]
    ELSE LET r == load_block(b, filename, blocks[i])
         IN  IF r.raised THEN [buf |-> r.buf, data |-> data, raised |-> TRUE]
             ELSE load_all(r.buf, filename, blocks, i + 1, Append(data, r.data))

\* content[:remaining] of the concatenated block buffers, as the sequence
\* of <<block, number of bytes taken from it>>
RECURSIVE take_bytes(_, _, _)
take_bytes(data, i, remaining) ==
    IF i > Len(data) \/ remaining <= 0 THEN <<>>
    ELSE LET size == IF data[i].kind = "absent" THEN 0 ELSE BLOCK_SIZE
             take == Min(size, remaining)
         IN  (IF take > 0 THEN << <<data[i], take>> >> ELSE <<>>)
                 \o take_bytes(data, i + 1, remaining - take)

\* the FileSystem over the block store the BufferManager has written to
OnDisk(s, b) == [s EXCEPT !.disk = b.disk]

\* _process_request: a mutation that leaves the status of a request whose
\* _do_* call raised as it was
set_status_keeps_running(req, exc) ==
    IF exc = ""
    THEN [req EXCEPT !.status = "COMPLETED"]
    ELSE [req EXCEPT !.error = exc]

\* _process_request: request.status = IOStatus.COMPLETED after the _do_*
\* call returned; in the except clause request.status = IOStatus.FAILED
\* and request.error = str(e)
set_status(req, exc) ==
    IF exc = ""
    THEN [req EXCEPT !.status = "COMPLETED"]
    ELSE [req EXCEPT !.status = "FAILED", !.error = exc]

\* AsyncIOManager.wait_for_request, once the request is terminal
wait_for_request(reqs, request_id) == reqs[request_id].status = "COMPLETED"

\* ---------------------------------------------------- PriorityScheduler
\* Priority: the smaller the value, the higher the priority
HIGH == 1
MEDIUM == 2
LOW == 3
Priority == {HIGH, MEDIUM, LOW}

\* PriorityScheduler.pid_counter after __init__
PID_BASE == 1000

\* the pids _generate_pid hands out in a run
Pids == (PID_BASE + 1)..(PID_BASE + MaxProcesses)

\* ProcessControlBlock as create_process builds it; result "None" is None
ProcessControlBlock(priority) ==
    [priority |-> priority, state |-> "NEW", result |-> "None"]

\* what a task body does: it returns a value or raises an Exception
Outcomes == {"returned", "raised"}

\* a wait that ends only when the HIGH queue is non-empty
any_ready_high(queues) == queues[HIGH] # <<>>

\* any(self.ready_queues.values())
any_ready(queues) == \E q \in Priority : queues[q] # <<>>

\* _select_next takes the tail of the lowest non-empty class
select_next_lowest(queues) ==
    IF queues[LOW] # <<>> THEN
        [pcb |-> queues[LOW][Len(queues[LOW])],
         queues |-> [queues EXCEPT ![LOW] = SubSeq(@, 1, Len(@) - 1)]]
    ELSE IF queues[MEDIUM] # <<>> THEN
        [pcb |-> queues[MEDIUM][Len(queues[MEDIUM])],
         queues |-> [queues EXCEPT ![MEDIUM] = SubSeq(@, 1, Len(@) - 1)]]
    ELSE IF queues[HIGH] # <<>> THEN
        [pcb |-> queues[HIGH][Len(queues[HIGH])],
         queues |-> [queues EXCEPT ![HIGH] = SubSeq(@, 1, Len(@) - 1)]]
    ELSE [pcb |-> 0, queues |-> queues]
\* PriorityScheduler._select_next: popleft of the first non-empty queue in the
\* order HIGH, MEDIUM, LOW; pcb 0 is None
select_next(queues) ==
    IF queues[HIGH] # <<>> THEN
        [pcb |-> Head(queues[HIGH]),
         queues |-> [queues EXCEPT ![HIGH] = Tail(@)]]
    ELSE IF queues[MEDIUM] # <<>> THEN
        [pcb |-> Head(queues[MEDIUM]),
         queues |-> [queues EXCEPT ![MEDIUM] = Tail(@)]]
    ELSE IF queues[LOW] # <<>> THEN
        [pcb |-> Head(queues[LOW]),
         queues |-> [queues EXCEPT ![LOW] = Tail(@)]]
    ELSE [pcb |-> 0, queues |-> queues]

\* the head of _run_process: the PCB is marked RUNNING
run_begin(procs, pid) == [procs EXCEPT ![pid].state = "RUNNING"]

\* a _run_process whose finally block leaves the state alone
run_finally_keeps_state(procs, pid, outcome) ==
    [procs EXCEPT ![pid].result =
                      IF outcome = "raised" THEN "Error" ELSE "value"]
\* the rest of _run_process: the task's value, or "Error: ..." if it raised,
\* is stored as the result, and the finally block marks the PCB TERMINATED
run_finally(procs, pid, outcome) ==
    [procs EXCEPT ![pid].result =
                      IF outcome = "raised" THEN "Error" ELSE "value",
                  ![pid].state = "TERMINATED"]

\* ------------------------------------------------------------------ Pipe
\* the threads that use the pipe
Threads == 1..PipeThreads

\* a thread outside every Pipe call; ret is what its last call returned:
\* a write returns a boolean, a read the item or 0 for None
Outside == [pc |-> "idle", op |-> "none", data |-> 0, timeout |-> FALSE,
            ret |-> 0]

\* deque(maxlen=maxlen).append(data): a full deque drops its oldest item
deque_append(buf, data, maxlen) ==
    IF Len(buf) >= maxlen
    THEN IF maxlen = 0 THEN <<>> ELSE Append(Tail(buf), data)
    ELSE Append(buf, data)

\* a full test that lets one item too many in
pipe_full_above(buf, size) == Len(buf) > size
\* len(self.buffer) >= self.buffer_size
pipe_full(buf, size) == Len(buf) >= size

\* Condition.notify(): the oldest waiter is taken off the list and woken;
\* a waiter whose timeout has expired is taken off as well and wakes nobody
notify(waiters, th) ==
    IF waiters = <<>> THEN [waiters |-> waiters, threads |-> th]
    ELSE [waiters |-> Tail(waiters),
          threads |-> IF th[Head(waiters)].pc = "waiting"
                      THEN [th EXCEPT ![Head(waiters)].pc = "notified"]
                      ELSE th]

\* a notify_all that wakes the oldest waiter only
notify_all_one(waiters, th) == notify(waiters, th)
\* Condition.notify_all(): every waiter is taken off the list and woken
notify_all(waiters, th) ==
    [waiters |-> <<>>,
     threads |-> [t \in DOMAIN th |->
                    IF /\ \E k \in 1..Len(waiters) : waiters[k] = t
                       /\ th[t].pc = "waiting"
                    THEN [th[t] EXCEPT !.pc = "notified"]
                    ELSE th[t]]]

\* self._waiters.remove(waiter) at the end of a wait that timed out
remove_waiter(waiters, t) == SelectSeq(waiters, LAMBDA w : w # t)

\* ------------------------------------------------------------------ Init
\* FileSystem.format_disk on a new backing file (mount with no disk file),
\* and BufferManager(fs)
InitStorage ==
    /\ inodes = [i \in Slots |-> INode]
    /\ bits = 0..(DATA_START - 1)
    /\ superblock = [free_blocks |-> TOTAL_BLOCKS - DATA_START,
                     free_inodes |-> MAX_INODES]
    /\ disk = [b \in {} |-> Zero]
    /\ disk_inodes = [i \in Slots |-> INode_to_bytes(INode)]
    /\ disk_bits = 0..(DATA_START - 1)
    /\ disk_super = [free_blocks |-> TOTAL_BLOCKS - DATA_START,
                     free_inodes |-> MAX_INODES]
    /\ ops = 0
    /\ pages = [i \in Pages |-> BufferPage]
    /\ lru_order = <<>>
    /\ hit_count = 0
    /\ miss_count = 0
    /\ writeback_count = 0
    /\ bops = 0

\* AsyncIOManager.__init__, but for max_workers
InitAsyncIO ==
    /\ requests = [i \in {} |-> NoResult]
    /\ request_queue = {}
    /\ request_id_counter = 0
    /\ submitting = {}
    /\ dispatcher = 0
    /\ work_queue = <<>>
    /\ active = {}
    /\ fired = <<>>
    /\ callback_errors = {}
    /\ running = FALSE

\* PriorityScheduler.__init__
InitScheduler ==
    /\ processes = [i \in {} |-> ProcessControlBlock(MEDIUM)]
    /\ ready_queues = [q \in Priority |-> <<>>]
    /\ running_pcb = 0
    /\ pid_counter = PID_BASE
    /\ scheduler_running = FALSE
    /\ scheduler_pc = "stopped"
    /\ pcb = 0
    /\ sops = 0

\* Pipe.__init__(name, buffer_size), and the threads that will use the pipe
InitPipe ==
    /\ pipe_buffer = <<>>
    /\ closed = FALSE
    /\ write_count = 0
    /\ read_count = 0
    /\ not_empty = <<>>
    /\ not_full = <<>>
    /\ pipe_threads = [t \in Threads |-> Outside]
    /\ written = <<>>
    /\ delivered = <<>>
    /\ pcalls = 0

\* ================================================================== locks
\* The four re-entrant locks (threading.RLock): FileSystem.lock,
\* BufferManager.lock (held through BufferManager.condition),
\* VirtualDisk.lock and AsyncIOManager.lock.  A call is the sequence of
\* acquisitions and releases its code makes, `with` statements nested as in
\* the source; one block transfer stands for each loop of transfers.
Locks == {"fs", "buffer", "disk", "aio"}
LockThreadIds == 1..LockThreads

\* `with lock: body`
With(lock, body) == <<<<"acquire", lock>>>> \o body \o <<<<"release", lock>>>>

\* a block transfer that takes the FileSystem lock while it holds its own
virtual_disk_call_fs == With("disk", With("fs", <<>>))

\* VirtualDisk.read_block, VirtualDisk.write_block
virtual_disk_call == With("disk", <<>>)

\* a FileSystem method: `with self.lock`, block reads and _save_* writes
file_system_call == With("fs", virtual_disk_call \o virtual_disk_call)

\* BufferManager.load_block: the write-back of _evict_page, then the read
load_block_locks == With("buffer", virtual_disk_call \o virtual_disk_call)

\* BufferManager.write_block: load_block under the lock it already holds
buffer_write_block_locks == With("buffer", load_block_locks)

\* BufferManager.flush_all, flush_file, invalidate_file: write-backs
buffer_scan_locks == With("buffer", virtual_disk_call)

\* _generate_request_id, the store of submit_*, the look-up of _worker_loop,
\* start, get_request_status, wait_for_request, get_statistics
dispatcher_call == With("aio", <<>>)

\* submit_*: the id, then the store, each under the lock
submit_locks == dispatcher_call \o dispatcher_call

\* AsyncIOManager._do_read
do_read_locks ==
    file_system_call \o virtual_disk_call \o load_block_locks
        \o file_system_call

\* AsyncIOManager._do_write with a block index; _save_inodes is called
\* without the FileSystem lock
do_write_block_locks ==
    file_system_call \o virtual_disk_call \o buffer_write_block_locks
        \o virtual_disk_call \o file_system_call

\* AsyncIOManager._do_write of a whole file
do_write_file_locks ==
    buffer_scan_locks \o file_system_call \o virtual_disk_call
        \o load_block_locks

\* AsyncIOManager._do_create
do_create_locks == file_system_call \o virtual_disk_call \o load_block_locks

\* AsyncIOManager._do_delete
do_delete_locks == buffer_scan_locks \o file_system_call

\* the calls of client threads, of the dispatch thread and of the workers
LockCalls ==
    {virtual_disk_call, file_system_call, load_block_locks,
     buffer_write_block_locks, buffer_scan_locks, dispatcher_call,
     submit_locks, do_read_locks, do_write_block_locks, do_write_file_locks,
     do_create_locks, do_delete_locks}

InitLocks ==
    /\ lock_prog = [t \in LockThreadIds |-> <<>>]
    /\ lock_held = [t \in LockThreadIds |-> <<>>]
    /\ lock_order = {}
    /\ lock_calls = 0

Init ==
    /\ InitStorage /\ InitAsyncIO /\ InitScheduler /\ InitPipe /\ InitLocks
    /\ max_workers = MaxWorkers

\* the FileSystem after a call is what the call left, whether the call
\* returned success, returned failure or raised
Becomes(r) ==
    /\ ops' = ops + 1
    /\ inodes' = r.fs.inodes
    /\ bits' = r.fs.bits
    /\ superblock' = r.fs.superblock
    /\ disk' = r.fs.disk
    /\ disk_inodes' = r.fs.disk_inodes
    /\ disk_bits' = r.fs.disk_bits
    /\ disk_super' = r.fs.disk_super
    /\ UNCHANGED <<bufvars, asyncvars, schedvars, pipevars, lockvars>>

\* --------------------------------------------------------------- actions
CreateFile ==
    \E name \in Names, inp \in CreateInputs :
        /\ ops < MaxOps
        /\ Becomes(create_file(Cur, name, inp[1], inp[2]))

WriteFile ==
    \E name \in Names, content \in Contents :
        /\ ops < MaxOps
        /\ Becomes(write_file(Cur, name, content))

ModifyBlock ==
    \E name \in Names, content \in ModifyContents,
       block_index \in ModifyIndexes :
        /\ ops < MaxOps
        /\ Becomes(modify_block_content(Cur, name, block_index, content))

DeleteFile ==
    \E name \in Names :
        /\ ops < MaxOps
        /\ Becomes(delete_file(Cur, name))

AcquireFile ==
    \E name \in Names :
        /\ ops < MaxOps
        /\ \A i \in Slots : inodes[i].ref_count < MaxRef
        /\ Becomes(acquire_file(Cur, name))

ReleaseFile ==
    \E name \in Names :
        /\ ops < MaxOps
        /\ Becomes(release_file(Cur, name))

Next ==
    \/ CreateFile
    \/ WriteFile
    \/ ModifyBlock
    \/ DeleteFile
    \/ AcquireFile
    \/ ReleaseFile

Spec == Init /\ [][Next]_vars

\* ---------------------------------------------- the inode record: steps
\* One file is created, then held and let go by any number of holders, and
\* the file system is mounted again at any time.
HolderCreate ==
    \E name \in Names, inp \in CreateInputs :
        /\ ops < MaxInodeCalls
        /\ \A i \in Slots : ~inodes[i].is_used
        /\ Becomes(create_file(Cur, name, inp[1], inp[2]))

HolderAcquire ==
    \E name \in Names :
        /\ ops < MaxInodeCalls
        /\ \E i \in Slots : inodes[i].is_used /\ inodes[i].filename = name
        /\ \A i \in Slots : inodes[i].ref_count < MaxHolders
        /\ Becomes(acquire_file(Cur, name))

HolderRelease ==
    \E name \in Names :
        /\ ops < MaxInodeCalls
        /\ \E i \in Slots : inodes[i].is_used /\ inodes[i].filename = name
        /\ Becomes(release_file(Cur, name))

Mount ==
    /\ ops < MaxInodeCalls
    /\ \E i \in Slots : inodes[i].is_used
    /\ Becomes(mount(Cur))

NextInode ==
    \/ HolderCreate
    \/ HolderAcquire
    \/ HolderRelease
    \/ Mount

SpecInode == Init /\ [][NextInode]_vars

\* ------------------------------------------------- BufferManager actions
\* The buffer cache over the block store of the formatted volume.
\* filenames and block numbers the BufferManager is called with; -1 is a
\* block number the block store cannot seek to
NameB == <<98>>
BufNames == {NameA, NameB}
BufBlocks == {-1, DATA_START, DATA_START + 1}
\* data write_block is called with: shorter and longer than a block
BufData == {Content(3, 10), Content(4, 100)}

\* the BufferManager and the block store after a call
BufBecomes(b) ==
    /\ bops' = bops + 1
    /\ pages' = b.pages
    /\ lru_order' = b.lru_order
    /\ hit_count' = b.hit_count
    /\ miss_count' = b.miss_count
    /\ writeback_count' = b.writeback_count
    /\ disk' = b.disk
    /\ UNCHANGED <<inodes, bits, superblock, disk_inodes, disk_bits,
                   disk_super, ops, asyncvars, schedvars, pipevars, lockvars>>

LoadBlock ==
    \E filename \in BufNames, block_num \in BufBlocks :
        /\ bops < MaxBufOps
        /\ BufBecomes(load_block(BufCur, filename, block_num).buf)

BufferWriteBlock ==
    \E filename \in BufNames, block_num \in BufBlocks, data \in BufData :
        /\ bops < MaxBufOps
        /\ BufBecomes(buffer_write_block(BufCur, filename, block_num, data).buf)

FlushAll ==
    /\ bops < MaxBufOps
    /\ BufBecomes(flush_all(BufCur))

FlushFile ==
    \E filename \in BufNames :
        /\ bops < MaxBufOps
        /\ BufBecomes(flush_file(BufCur, filename))

InvalidateFile ==
    \E filename \in BufNames :
        /\ bops < MaxBufOps
        /\ BufBecomes(invalidate_file(BufCur, filename))

NextBuffer ==
    \/ LoadBlock
    \/ BufferWriteBlock
    \/ FlushAll
    \/ FlushFile
    \/ InvalidateFile

SpecBuffer == Init /\ [][NextBuffer]_vars

\* ------------------------------------------------ AsyncIOManager actions
\* what submit_create, submit_read, submit_write and submit_delete are
\* called with: <<io_type, filename, block_index, data, priority>>
NoData == Content(0, 0)
AsyncInputs ==
    {<<"CREATE", NameA, -1, Content(1, 100), 9>>,
     <<"CREATE", NameB, -1, Content(1, (DIRECT_BLOCKS + INDEX_ENTRIES) * BLOCK_SIZE), 9>>,
     <<"READ", NameA, -1, NoData, 5>>,
     <<"READ", NameA, 2, NoData, 5>>,
     <<"WRITE", NameA, -1, Content(2, 100), 1>>,
     <<"WRITE", NameA, 2, Content(2, 100), 1>>,
     <<"DELETE", NameA, -1, NoData, 5>>}
\* the file a client has created, directly through the FileSystem, before
\* the first request: <<content, permission>>
SetupInputs ==
    {<<Content(1, 100), 6>>, <<Content(1, 100), 4>>,
     <<Content(1, DIRECT_BLOCKS * BLOCK_SIZE), 6>>}

\* FileSystem.create_file called directly, as main.py's cmd_create_file does
ClientCreate ==
    \E inp \in SetupInputs :
        /\ request_id_counter = 0
        /\ \A i \in Slots : ~inodes[i].is_used
        /\ Becomes(create_file(Cur, NameA, inp[1], inp[2]))

\* FileSystem.acquire_file called directly: a client holds the file open
ClientAcquire ==
    /\ request_id_counter = 0
    /\ \E i \in Slots : inodes[i].is_used /\ inodes[i].ref_count = 0
    /\ Becomes(acquire_file(Cur, NameA))

\* the requests of Scenario C: a write at priority 1, a create at priority 9
PriorityInputs ==
    {<<"WRITE", NameA, -1, Content(2, 100), 1>>,
     <<"CREATE", NameA, -1, Content(1, 100), 9>>}

\* submit_*: request_id=self._generate_request_id() and the IORequest
SubmitRequest(inputs) ==
    \E inp \in inputs :
        /\ request_id_counter < MaxRequests
        /\ request_id_counter' = request_id_counter + 1
        /\ submitting' = submitting \cup
              {[req |-> IORequest(request_id_counter + 1, inp[1], inp[2],
                                  inp[3], inp[4], inp[5]),
                pc |-> "store"]}
        /\ UNCHANGED <<fsvars, bufvars, requests, request_queue, dispatcher,
                       work_queue, active, fired, max_workers, callback_errors, running, schedvars, pipevars, lockvars>>

GenerateRequestId == SubmitRequest(AsyncInputs)

GeneratePriorityRequestId == SubmitRequest(PriorityInputs)

\* submit_*: with self.lock: self.requests[request.request_id] = request
StoreRequest ==
    \E s \in submitting :
        /\ s.pc = "store"
        /\ requests' = (s.req.request_id :> s.req) @@ requests
        /\ submitting' = (submitting \ {s}) \cup {[s EXCEPT !.pc = "put"]}
        /\ UNCHANGED <<fsvars, bufvars, request_queue, request_id_counter,
                       dispatcher, work_queue, active, fired, max_workers, callback_errors, running, schedvars, pipevars, lockvars>>

\* submit_*: self.request_queue.put((priority, request.request_id))
PutRequest ==
    \E s \in submitting :
        /\ s.pc = "put"
        /\ request_queue' = request_queue \cup
                               {<<s.req.priority, s.req.request_id>>}
        /\ submitting' = submitting \ {s}
        /\ UNCHANGED <<fsvars, bufvars, requests, request_id_counter,
                       dispatcher, work_queue, active, fired, max_workers, callback_errors, running, schedvars, pipevars, lockvars>>

\* AsyncIOManager.start: the dispatch loop begins
StartManager ==
    /\ ~running
    /\ running' = TRUE
    /\ UNCHANGED <<fsvars, bufvars, requests, request_queue,
                   request_id_counter, submitting, dispatcher, work_queue,
                   active, fired, max_workers, callback_errors, schedvars, pipevars, lockvars>>

\* Scenario C: start() is called when every submit_* call has returned, so
\* that every request is in the queue before the dispatch loop pops one
StartAfterSubmit ==
    /\ request_id_counter = MaxRequests
    /\ submitting = {}
    /\ StartManager

\* _worker_loop: while self.running:
\*     _, request_id = self.request_queue.get(timeout=0.1)
DispatchGet ==
    /\ running
    /\ dispatcher = 0
    /\ request_queue # {}
    /\ dispatcher' = queue_get(request_queue)[2]
    /\ request_queue' = request_queue \ {queue_get(request_queue)}
    /\ UNCHANGED <<fsvars, bufvars, requests, request_id_counter, submitting,
                   work_queue, active, fired, max_workers, callback_errors, running, schedvars, pipevars, lockvars>>

\* _worker_loop: the look-up under the lock, status RUNNING, and
\* self.executor.submit(self._process_request, request)
DispatchSubmit ==
    /\ dispatcher # 0
    /\ dispatcher' = 0
    /\ IF dispatcher \in DOMAIN requests
             /\ requests[dispatcher].status = "PENDING"
       THEN /\ requests' = [requests EXCEPT ![dispatcher].status = "RUNNING"]
            /\ work_queue' = Append(work_queue, dispatcher)
       ELSE UNCHANGED <<requests, work_queue>>
    /\ UNCHANGED <<fsvars, bufvars, request_queue, request_id_counter,
                   submitting, active, fired, max_workers, callback_errors, running, schedvars, pipevars, lockvars>>

\* a free thread of the executor takes the next _process_request call
WorkerTake ==
    /\ work_queue # <<>>
    /\ Cardinality(active) < max_workers
    /\ active' = active \cup
                    {[id |-> executor_take(work_queue).id, pc |-> "start",
                      exc |-> ""]}
    /\ work_queue' = executor_take(work_queue).rest
    /\ UNCHANGED <<fsvars, bufvars, requests, request_queue,
                   request_id_counter, submitting, dispatcher, fired,
                   max_workers, callback_errors, running, schedvars, pipevars, lockvars>>

\* a step of the _process_request call a: the FileSystem is s, the
\* BufferManager is b, the request is req, the call goes on at pc with the
\* exception exc raised and not yet caught ("" for none)
Advance(a, s, b, req, pc, exc) ==
    /\ inodes' = s.inodes
    /\ bits' = s.bits
    /\ superblock' = s.superblock
    /\ disk' = s.disk
    /\ disk_inodes' = s.disk_inodes
    /\ disk_bits' = s.disk_bits
    /\ disk_super' = s.disk_super
    /\ pages' = b.pages
    /\ lru_order' = b.lru_order
    /\ hit_count' = b.hit_count
    /\ miss_count' = b.miss_count
    /\ writeback_count' = b.writeback_count
    /\ requests' = [requests EXCEPT ![a.id] = req]
    /\ active' = (active \ {a}) \cup {[a EXCEPT !.pc = pc, !.exc = exc]}
    /\ UNCHANGED <<ops, bops, request_queue, request_id_counter, submitting,
                   dispatcher, work_queue, fired, max_workers, callback_errors, running, schedvars, pipevars, lockvars>>

\* _do_read, _do_write (one block): self.fs.acquire_file(request.filename)
DoAcquire ==
    \E a \in active :
        LET req == requests[a.id]
        IN  /\ a.pc = "start"
            /\ \/ req.io_type = "READ"
               \/ req.io_type = "WRITE" /\ req.block_index >= 0
            /\ Advance(a, acquire_file(Cur, req.filename).fs, BufCur, req,
                       "body", "")

\* _do_read: the try block
DoRead ==
    \E a \in active :
        LET req == requests[a.id]
            slot == find_inode(inodes, req.filename)
            all_blocks == all_blocks_of(Cur, inodes[slot])
            one == load_block(BufCur, req.filename,
                              all_blocks[req.block_index + 1])
            all == load_all(BufCur, req.filename, all_blocks, 1, <<>>)
        IN  /\ a.pc = "body"
            /\ req.io_type = "READ"
            /\ IF slot = -1
               THEN Advance(a, Cur, BufCur, req, "release", "notfound")
               ELSE IF req.block_index >= Len(all_blocks)
               THEN Advance(a, Cur, BufCur, req, "release", "index")
               ELSE IF req.block_index >= 0 /\ one.raised
               THEN Advance(a, OnDisk(Cur, one.buf), one.buf, req, "release",
                            "raised")
               ELSE IF req.block_index >= 0
               THEN Advance(a, OnDisk(Cur, one.buf), one.buf,
                            [req EXCEPT !.result =
                                BytesResult(take_bytes(<<one.data>>, 1,
                                                       BLOCK_SIZE))],
                            "release", "")
               ELSE IF all.raised
               THEN Advance(a, OnDisk(Cur, all.buf), all.buf, req, "release",
                            "raised")
               ELSE Advance(a, OnDisk(Cur, all.buf), all.buf,
                            [req EXCEPT !.result =
                                BytesResult(take_bytes(all.data, 1,
                                               inodes[slot].file_size))],
                            "release", "")

\* _do_write, one block: the inner try block up to the test
\* "if new_size > inode.file_size:"
DoWriteBlock ==
    \E a \in active :
        LET req == requests[a.id]
            slot == find_inode(inodes, req.filename)
            all_blocks == all_blocks_of(Cur, inodes[slot])
            w == buffer_write_block(BufCur, req.filename,
                                    all_blocks[req.block_index + 1], req.data)
            new_size == req.block_index * BLOCK_SIZE + req.data.len
        IN  /\ a.pc = "body"
            /\ req.io_type = "WRITE"
            /\ IF slot = -1
               THEN Advance(a, Cur, BufCur, req, "release", "notfound")
               ELSE IF req.block_index >= Len(all_blocks)
               THEN Advance(a, Cur, BufCur, req, "release", "index")
               ELSE IF new_size > inodes[slot].file_size
               THEN Advance(a, OnDisk(Cur, w.buf), w.buf, req, "grow", "")
               ELSE Advance(a, OnDisk(Cur, w.buf), w.buf,
                            [req EXCEPT !.result = BoolResult(TRUE)],
                            "release", "")

\* _do_write, one block, after "if new_size > inode.file_size:" was found
\* true: inode.file_size = new_size and self.fs._save_inodes().  No lock is
\* held between the test and the assignment.  No request of this
\* specification creates or deletes, so the inode found by name is the
\* inode object the call holds.
DoGrow ==
    \E a \in active :
        LET req == requests[a.id]
            slot == find_inode(inodes, req.filename)
            new_size == req.block_index * BLOCK_SIZE + req.data.len
        IN  /\ a.pc = "grow"
            /\ Advance(a,
                       save_inodes([Cur EXCEPT
                                       !.inodes[slot].file_size = new_size]),
                       BufCur, [req EXCEPT !.result = BoolResult(TRUE)],
                       "release", "")

\* _do_read, _do_write: finally: self.fs.release_file(request.filename);
\* _do_write catches the exception (result False, error), _do_read lets it
\* go on to _process_request
DoRelease ==
    \E a \in active :
        LET req == requests[a.id]
            s == release_file(Cur, req.filename).fs
        IN  /\ a.pc = "release"
            /\ IF req.io_type = "WRITE" /\ a.exc # ""
               THEN Advance(a, s, BufCur,
                            [req EXCEPT !.result = BoolResult(FALSE),
                                        !.error = a.exc],
                            "finish", "")
               ELSE Advance(a, s, BufCur, req, "finish", a.exc)

\* _do_write (whole file), _do_delete:
\* self.buffer_mgr.invalidate_file(request.filename)
DoInvalidate ==
    \E a \in active :
        LET req == requests[a.id]
            b == invalidate_file(BufCur, req.filename)
        IN  /\ a.pc = "start"
            /\ \/ req.io_type = "DELETE"
               \/ req.io_type = "WRITE" /\ req.block_index < 0
            /\ Advance(a, OnDisk(Cur, b), b, req, "fs", "")

\* _do_write (whole file): self.fs.write_file(request.filename, request.data);
\* a failure and an exception both end in result False with the error
DoWriteFile ==
    \E a \in active :
        LET req == requests[a.id]
            r == write_file(Cur, req.filename, req.data)
        IN  /\ a.pc = "fs"
            /\ req.io_type = "WRITE"
            /\ IF r.ok
               THEN Advance(a, r.fs, BufCur, req, "warm", "")
               ELSE Advance(a, r.fs, BufCur,
                            [req EXCEPT !.result = BoolResult(FALSE),
                                        !.error = r.msg],
                            "finish", "")

\* _do_create: self.fs.create_file(request.filename, request.data); an
\* exception goes on to _process_request
DoCreate ==
    \E a \in active :
        LET req == requests[a.id]
            r == create_file(Cur, req.filename, req.data, 6)
        IN  /\ a.pc = "start"
            /\ req.io_type = "CREATE"
            /\ IF r.msg = "raised"
               THEN Advance(a, r.fs, BufCur, req, "finish", "raised")
               ELSE IF r.ok
               THEN Advance(a, r.fs, BufCur,
                            [req EXCEPT !.result = BoolResult(TRUE)],
                            "warm", "")
               ELSE Advance(a, r.fs, BufCur,
                            [req EXCEPT !.result = BoolResult(FALSE),
                                        !.error = r.msg],
                            "finish", "")

\* _do_write (whole file), _do_create: the blocks of the file are loaded
\* into the buffer
DoWarm ==
    \E a \in active :
        LET req == requests[a.id]
            slot == find_inode(inodes, req.filename)
            all == load_all(BufCur, req.filename,
                            all_blocks_of(Cur, inodes[slot]), 1, <<>>)
            done == IF req.io_type = "WRITE"
                    THEN [req EXCEPT !.result = BoolResult(TRUE)]
                    ELSE req
            failed == [req EXCEPT !.result = BoolResult(FALSE),
                                  !.error = "raised"]
        IN  /\ a.pc = "warm"
            /\ IF slot = -1
               THEN Advance(a, Cur, BufCur, done, "finish", "")
               ELSE IF ~all.raised
               THEN Advance(a, OnDisk(Cur, all.buf), all.buf, done,
                            "finish", "")
               ELSE IF req.io_type = "WRITE"
               THEN Advance(a, OnDisk(Cur, all.buf), all.buf, failed,
                            "finish", "")
               ELSE Advance(a, OnDisk(Cur, all.buf), all.buf, req,
                            "finish", "raised")

\* _do_delete: self.fs.delete_file(request.filename)
DoDelete ==
    \E a \in active :
        LET req == requests[a.id]
            r == delete_file(Cur, req.filename)
        IN  /\ a.pc = "fs"
            /\ req.io_type = "DELETE"
            /\ Advance(a, r.fs, BufCur,
                       [req EXCEPT !.result = BoolResult(r.ok),
                                   !.error = IF r.ok THEN "" ELSE r.msg],
                       "finish", "")

\* _process_request: status COMPLETED after the _do_* call returned,
\* FAILED with str(e) when it raised
FinishRequest ==
    \E a \in active :
        /\ a.pc = "finish"
        /\ Advance(a, Cur, BufCur, set_status(requests[a.id], a.exc),
                   "callback", "")

\* _process_request: finally: request.callback(request), which returns;
\* the thread is free
Callback ==
    \E a \in active :
        /\ a.pc = "callback"
        /\ fired' = Append(fired, a.id)
        /\ active' = active \ {a}
        /\ UNCHANGED <<fsvars, bufvars, requests, request_queue,
                       request_id_counter, submitting, dispatcher,
                       work_queue, max_workers, callback_errors, running, schedvars, pipevars, lockvars>>

\* _process_request: finally: request.callback(request) raises; the
\* except clause prints the error and the thread is free
CallbackRaises ==
    \E a \in active :
        /\ a.pc = "callback"
        /\ fired' = Append(fired, a.id)
        /\ callback_errors' = callback_errors \cup {a.id}
        /\ active' = active \ {a}
        /\ UNCHANGED <<fsvars, bufvars, requests, request_queue,
                       request_id_counter, submitting, dispatcher,
                       work_queue, max_workers, running, schedvars, pipevars, lockvars>>

NextAsync ==
    \/ ClientCreate
    \/ ClientAcquire
    \/ StartManager
    \/ GenerateRequestId
    \/ StoreRequest
    \/ PutRequest
    \/ DispatchGet
    \/ DispatchSubmit
    \/ WorkerTake
    \/ DoAcquire
    \/ DoRead
    \/ DoWriteBlock
    \/ DoRelease
    \/ DoInvalidate
    \/ DoWriteFile
    \/ DoCreate
    \/ DoWarm
    \/ DoDelete
    \/ FinishRequest
    \/ Callback

\* AsyncIOManager(fs, buffer_mgr, max_workers) over a formatted volume
InitAsync ==
    /\ InitStorage /\ InitAsyncIO /\ InitScheduler /\ InitPipe /\ InitLocks
    /\ max_workers \in 1..MaxWorkers

SpecAsync == InitAsync /\ [][NextAsync]_vars

\* the AsyncIOManager given the requests of Scenario C only
NextPriority ==
    \/ StartManager
    \/ GeneratePriorityRequestId
    \/ StoreRequest
    \/ PutRequest
    \/ DispatchGet
    \/ DispatchSubmit
    \/ WorkerTake
    \/ DoInvalidate
    \/ DoWriteFile
    \/ DoCreate
    \/ DoWarm
    \/ FinishRequest
    \/ Callback

SpecPriority == InitAsync /\ [][NextPriority]_vars

\* Scenario C: the requests are submitted, then the manager is started
NextScenarioC ==
    \/ StartAfterSubmit
    \/ GeneratePriorityRequestId
    \/ StoreRequest
    \/ PutRequest
    \/ DispatchGet
    \/ DispatchSubmit
    \/ WorkerTake
    \/ DoInvalidate
    \/ DoWriteFile
    \/ DoCreate
    \/ DoWarm
    \/ FinishRequest
    \/ Callback

SpecScenarioC == InitAsync /\ [][NextScenarioC]_vars

\* the requests of a client whose callbacks may raise: a read that fails
\* while the file does not exist yet, and the create of that file
CallbackInputs ==
    {<<"READ", NameA, -1, NoData, 5>>,
     <<"CREATE", NameA, -1, Content(1, 100), 5>>}

GenerateCallbackRequestId == SubmitRequest(CallbackInputs)

NextCallback ==
    \/ StartManager
    \/ GenerateCallbackRequestId
    \/ StoreRequest
    \/ PutRequest
    \/ DispatchGet
    \/ DispatchSubmit
    \/ WorkerTake
    \/ DoAcquire
    \/ DoRead
    \/ DoRelease
    \/ DoCreate
    \/ DoWarm
    \/ FinishRequest
    \/ Callback
    \/ CallbackRaises

SpecCallback == InitAsync /\ [][NextCallback]_vars

\* one-block writes of block 1 whose end lies past the end of a 100-byte
\* file: at byte 114, at byte 124, and (100 bytes given) at byte 164
BlockWriteInputs ==
    {<<"WRITE", NameA, 1, Content(2, 50), 5>>,
     <<"WRITE", NameA, 1, Content(3, 60), 5>>,
     <<"WRITE", NameA, 1, Content(4, 100), 5>>}

GenerateBlockWriteRequestId == SubmitRequest(BlockWriteInputs)

\* the AsyncIOManager given one-block writes of a file created before
NextBlockWrite ==
    \/ ClientCreate
    \/ StartManager
    \/ GenerateBlockWriteRequestId
    \/ StoreRequest
    \/ PutRequest
    \/ DispatchGet
    \/ DispatchSubmit
    \/ WorkerTake
    \/ DoAcquire
    \/ DoWriteBlock
    \/ DoGrow
    \/ DoRelease
    \/ FinishRequest
    \/ Callback

SpecBlockWrite == InitAsync /\ [][NextBlockWrite]_vars

\* a mix of requests on one file: a create, a whole-file read, a one-block
\* write and a delete
MixInputs ==
    {<<"CREATE", NameA, -1, Content(1, 100), 5>>,
     <<"READ", NameA, -1, NoData, 5>>,
     <<"WRITE", NameA, 0, Content(2, 100), 5>>,
     <<"DELETE", NameA, -1, NoData, 5>>}

GenerateMixRequestId == SubmitRequest(MixInputs)

\* the steps of the thread inside a submit_* call
SubmitStep == StoreRequest \/ PutRequest

\* the steps of the dispatch thread: _worker_loop
DispatchStep == DispatchGet \/ DispatchSubmit

\* the steps of the executor's threads: _process_request
WorkerStep ==
    \/ WorkerTake
    \/ DoAcquire
    \/ DoRead
    \/ DoWriteBlock
    \/ DoRelease
    \/ DoInvalidate
    \/ DoCreate
    \/ DoWarm
    \/ DoDelete
    \/ FinishRequest
    \/ Callback

NextMix ==
    \/ StartManager
    \/ GenerateMixRequestId
    \/ SubmitStep
    \/ DispatchStep
    \/ WorkerStep

\* a thread of the executor can take a step: a _process_request call is in
\* progress, or one is queued and a thread of the pool is free
WorkerCanStep ==
    \/ active # {}
    \/ work_queue # <<>> /\ Cardinality(active) < max_workers

\* weak fairness of the executor's threads, WF_vars(WorkerStep), with the
\* condition under which WorkerStep is enabled written out
WorkerFair == []<>(~WorkerCanStep) \/ []<><<WorkerStep>>_vars

\* every thread that can take a step takes one in the end: the thread in
\* submit_*, the dispatch thread and the executor's threads are threads of
\* the operating system
SpecMix ==
    /\ Init
    /\ [][NextMix]_vars
    /\ WF_vars(SubmitStep)
    /\ WF_vars(DispatchStep)
    /\ WorkerFair

\* ------------------------------------------- PriorityScheduler: the steps
\* Client threads call create_process and submit_process at any time; both
\* run under the scheduler's lock.  The scheduler thread is the only one
\* that runs _scheduler_loop: under the lock it waits for a PCB and pops
\* it, then releases the lock and runs the task.

\* the frame of a scheduler step
SchedFrame == UNCHANGED <<fsvars, bufvars, asyncvars, pipevars, lockvars>>

\* PriorityScheduler.create_process(name, task, args, priority)
CreateProcess ==
    /\ pid_counter < PID_BASE + MaxProcesses
    /\ \E priority \in Priority :
          /\ pid_counter' = pid_counter + 1
          /\ processes' =
                [i \in DOMAIN processes \cup {pid_counter + 1} |->
                    IF i = pid_counter + 1 THEN ProcessControlBlock(priority)
                    ELSE processes[i]]
    /\ UNCHANGED <<ready_queues, running_pcb, scheduler_running, scheduler_pc,
                   pcb, sops>>
    /\ SchedFrame

\* PriorityScheduler.submit_process(pcb), of a PCB create_process returned,
\* whatever its state: the call has no guard against a second submission
SubmitProcess ==
    /\ sops < MaxSubmits
    /\ \E pid \in DOMAIN processes :
          /\ processes' = [processes EXCEPT ![pid].state = "READY"]
          /\ ready_queues' =
                [ready_queues EXCEPT ![processes[pid].priority] = Append(@, pid)]
    /\ sops' = sops + 1
    /\ UNCHANGED <<running_pcb, pid_counter, scheduler_running, scheduler_pc,
                   pcb>>
    /\ SchedFrame

\* PriorityScheduler.start(): the scheduler thread enters _scheduler_loop
StartScheduler ==
    /\ ~scheduler_running
    /\ scheduler_running' = TRUE
    /\ scheduler_pc' = "select"
    /\ UNCHANGED <<processes, ready_queues, running_pcb, pid_counter, pcb, sops>>
    /\ SchedFrame

\* _scheduler_loop under schedule_cv: once a ready queue is non-empty,
\* pcb = self._select_next(); the lock is released
SelectNext ==
    /\ scheduler_pc = "select"
    /\ any_ready(ready_queues)
    /\ pcb' = select_next(ready_queues).pcb
    /\ ready_queues' = select_next(ready_queues).queues
    /\ scheduler_pc' = "selected"
    /\ UNCHANGED <<processes, running_pcb, pid_counter, scheduler_running, sops>>
    /\ SchedFrame

\* _run_process(pcb), outside the lock, up to the call of the task
RunProcess ==
    /\ scheduler_pc = "selected"
    /\ processes' = run_begin(processes, pcb)
    /\ running_pcb' = pcb
    /\ scheduler_pc' = "task"
    /\ UNCHANGED <<ready_queues, pid_counter, scheduler_running, pcb, sops>>
    /\ SchedFrame

\* the task returns or raises; the except and finally blocks of
\* _run_process; the loop goes back to wait under the lock
FinishProcess ==
    /\ scheduler_pc = "task"
    /\ \E outcome \in Outcomes :
          processes' = run_finally(processes, pcb, outcome)
    /\ running_pcb' = 0
    /\ scheduler_pc' = "select"
    /\ UNCHANGED <<ready_queues, pid_counter, scheduler_running, pcb, sops>>
    /\ SchedFrame

NextScheduler ==
    \/ CreateProcess
    \/ SubmitProcess
    \/ StartScheduler
    \/ SelectNext
    \/ RunProcess
    \/ FinishProcess

SpecScheduler == Init /\ [][NextScheduler]_vars

\* the steps of the scheduler thread: _scheduler_loop
SchedulerStep == SelectNext \/ RunProcess \/ FinishProcess

\* the scheduler after two create_process calls, of any priorities
InitCreated ==
    /\ InitStorage /\ InitAsyncIO /\ InitPipe /\ InitLocks
    /\ max_workers = MaxWorkers
    /\ \E first, second \in Priority :
          processes = (PID_BASE + 1 :> ProcessControlBlock(first))
                        @@ (PID_BASE + 2 :> ProcessControlBlock(second))
    /\ ready_queues = [q \in Priority |-> <<>>]
    /\ running_pcb = 0
    /\ pid_counter = PID_BASE + 2
    /\ scheduler_running = FALSE
    /\ scheduler_pc = "stopped"
    /\ pcb = 0
    /\ sops = 0

NextCreated ==
    \/ SubmitProcess
    \/ StartScheduler
    \/ SchedulerStep

\* the scheduler thread is a thread of the operating system and every task
\* body terminates: a step it can take is taken in the end
SpecSchedulerFair ==
    InitCreated /\ [][NextCreated]_vars /\ WF_vars(SchedulerStep)

\* ------------------------------------------------------- Pipe: the steps
\* Every step is one stretch of a call during which the thread holds the
\* pipe's lock: from the entry of the call, or from the return of a
\* Condition.wait, to the next wait or to the return of the call.

\* the frame of a pipe step
PipeFrame == UNCHANGED <<fsvars, bufvars, asyncvars, schedvars, lockvars>>

\* Pipe.write from the test of self.closed on, which is where a writer is
\* both on entry and after a wait that returned True
WriteBody(t, th) ==
    IF closed THEN
        /\ pipe_threads' = [th EXCEPT ![t].pc = "idle", ![t].ret = FALSE]
        /\ UNCHANGED <<pipe_buffer, write_count, not_empty, not_full, written>>
    ELSE IF pipe_full(pipe_buffer, PipeCapacity) THEN
        /\ pipe_threads' = [th EXCEPT ![t].pc = "waiting"]
        /\ not_full' = Append(not_full, t)
        /\ UNCHANGED <<pipe_buffer, write_count, not_empty, written>>
    ELSE
        LET n == notify(not_empty, th)
        IN  /\ pipe_buffer' = deque_append(pipe_buffer, th[t].data, PipeCapacity)
            /\ write_count' = write_count + 1
            /\ not_empty' = n.waiters
            /\ pipe_threads' = [n.threads EXCEPT ![t].pc = "idle", ![t].ret = TRUE]
            /\ written' = Append(written, th[t].data)
            /\ UNCHANGED not_full

\* Pipe.read from the test of len(self.buffer) on, which is where a reader
\* is both on entry and after a wait that returned True
ReadBody(t, th) ==
    IF pipe_buffer = <<>> THEN
        IF closed THEN
            /\ pipe_threads' = [th EXCEPT ![t].pc = "idle", ![t].ret = 0]
            /\ UNCHANGED <<pipe_buffer, read_count, not_empty, not_full,
                           delivered>>
        ELSE
            /\ pipe_threads' = [th EXCEPT ![t].pc = "waiting"]
            /\ not_empty' = Append(not_empty, t)
            /\ UNCHANGED <<pipe_buffer, read_count, not_full, delivered>>
    ELSE
        LET n == notify(not_full, th)
        IN  /\ pipe_buffer' = Tail(pipe_buffer)
            /\ read_count' = read_count + 1
            /\ not_full' = n.waiters
            /\ pipe_threads' = [n.threads EXCEPT ![t].pc = "idle",
                                                 ![t].ret = Head(pipe_buffer)]
            /\ delivered' = Append(delivered, Head(pipe_buffer))
            /\ UNCHANGED not_empty

\* Pipe.write(data, timeout) is called; the data of the k-th call is k
PipeWrite ==
    /\ pcalls < MaxPipeCalls
    /\ \E t \in Threads, timeout \in BOOLEAN :
          /\ pipe_threads[t].pc = "idle"
          /\ WriteBody(t, [pipe_threads EXCEPT
                              ![t] = [pc |-> "idle", op |-> "write",
                                      data |-> pcalls + 1,
                                      timeout |-> timeout, ret |-> FALSE]])
    /\ pcalls' = pcalls + 1
    /\ UNCHANGED <<closed, read_count, delivered>>
    /\ PipeFrame

\* Pipe.read(timeout) is called
PipeRead ==
    /\ pcalls < MaxPipeCalls
    /\ \E t \in Threads, timeout \in BOOLEAN :
          /\ pipe_threads[t].pc = "idle"
          /\ ReadBody(t, [pipe_threads EXCEPT
                             ![t] = [pc |-> "idle", op |-> "read", data |-> 0,
                                     timeout |-> timeout, ret |-> 0]])
    /\ pcalls' = pcalls + 1
    /\ UNCHANGED <<closed, write_count, written>>
    /\ PipeFrame

\* a notified writer gets the lock back: not_full.wait returned True
WriterWakes ==
    /\ \E t \in Threads :
          /\ pipe_threads[t].pc = "notified"
          /\ pipe_threads[t].op = "write"
          /\ WriteBody(t, pipe_threads)
    /\ UNCHANGED <<closed, read_count, delivered, pcalls>>
    /\ PipeFrame

\* a notified reader gets the lock back: not_empty.wait returned True
ReaderWakes ==
    /\ \E t \in Threads :
          /\ pipe_threads[t].pc = "notified"
          /\ pipe_threads[t].op = "read"
          /\ ReadBody(t, pipe_threads)
    /\ UNCHANGED <<closed, write_count, written, pcalls>>
    /\ PipeFrame

\* the timeout of a wait expires before a notify reaches the waiter
TimeoutExpires ==
    /\ \E t \in Threads :
          /\ pipe_threads[t].pc = "waiting"
          /\ pipe_threads[t].timeout
          /\ pipe_threads' = [pipe_threads EXCEPT ![t].pc = "expired"]
    /\ UNCHANGED <<pipe_buffer, closed, write_count, read_count, not_empty,
                   not_full, written, delivered, pcalls>>
    /\ PipeFrame

\* a wait that timed out gets the lock back and returns False: write
\* returns False, read returns None
TimedOutReturns ==
    /\ \E t \in Threads :
          /\ pipe_threads[t].pc = "expired"
          /\ pipe_threads' =
                [pipe_threads EXCEPT
                    ![t].pc = "idle",
                    ![t].ret = IF pipe_threads[t].op = "write" THEN FALSE ELSE 0]
          /\ not_full' = remove_waiter(not_full, t)
          /\ not_empty' = remove_waiter(not_empty, t)
    /\ UNCHANGED <<pipe_buffer, closed, write_count, read_count, written,
                   delivered, pcalls>>
    /\ PipeFrame

\* Pipe.close()
PipeClose ==
    /\ ~closed
    /\ closed' = TRUE
    /\ LET e == notify_all(not_empty, pipe_threads)
           f == notify_all(not_full, e.threads)
       IN  /\ not_empty' = e.waiters
           /\ not_full' = f.waiters
           /\ pipe_threads' = f.threads
    /\ UNCHANGED <<pipe_buffer, write_count, read_count, written, delivered,
                   pcalls>>
    /\ PipeFrame

NextPipe ==
    \/ PipeWrite
    \/ PipeRead
    \/ WriterWakes
    \/ ReaderWakes
    \/ TimeoutExpires
    \/ TimedOutReturns
    \/ PipeClose

SpecPipe == Init /\ [][NextPipe]_vars

\* ================================================================ claims
\* The calls the claims quantify over.
\* the state is one from which the specification takes another call
CallsLeft == ops < MaxOps

Creates == {<<name, inp[1], inp[2]>> : name \in Names, inp \in CreateInputs}
Writes == Names \X Contents

\* the blocks a used inode references: its direct blocks, the blocks its
\* indirect block indexes and the indirect block itself
RefsOf(s, inode) ==
    {all_blocks_of(s, inode)[k] : k \in 1..Len(all_blocks_of(s, inode))}
        \cup (IF inode.indirect_block >= 0 THEN {inode.indirect_block} ELSE {})

Refs(s) ==
    UNION {RefsOf(s, s.inodes[i]) : i \in {j \in Slots : s.inodes[j].is_used}}

\* a data-region bit is set iff some used inode references the block
BitmapMatches(s) ==
    \A b \in DataRegion : (b \in s.bits) <=> (b \in Refs(s))

\* the number of blocks of a file as list_directory counts them: the data
\* blocks, plus one for the indirect block
BlocksHeld(s, inode) ==
    Len(all_blocks_of(s, inode))
        + (IF inode.indirect_block >= 0 THEN 1 ELSE 0)

\* C1: after any sequence of create_file, write_file, modify_block_content
\* and delete_file calls, free_blocks_count() is total_blocks - data_start
\* - (number of distinct blocks referenced by used inodes), and a
\* data-region bit is set iff some used inode references the block.
C1_BitmapMatchesInodes ==
    /\ free_blocks_count(bits)
         = TOTAL_BLOCKS - DATA_START - Cardinality(Refs(Cur))
    /\ BitmapMatches(Cur)

\* C2: a create_file that fails for insufficient space leaves the file
\* system as it was: the bitmap, the used flag of every inode slot and the
\* free-inode counter.
C2_CreateNoSpaceLeavesNoTrace ==
    \A c \in Creates :
        LET r == create_file(Cur, c[1], c[2], c[3])
        IN  r.msg = "nospace" =>
                /\ r.fs.bits = bits
                /\ \A i \in Slots : r.fs.inodes[i].is_used = inodes[i].is_used
                /\ r.fs.superblock.free_inodes = superblock.free_inodes

\* the inode table and the bitmap agree, and every indirect block of a used
\* inode holds an index block that was written
Consistent(s) ==
    /\ BitmapMatches(s)
    /\ \A i \in Slots :
          s.inodes[i].is_used /\ s.inodes[i].indirect_block >= 0
              => read_block(s.disk, s.inodes[i].indirect_block).kind = "index"

TooLong(content) == blocks_for(content.len) > DIRECT_BLOCKS + INDEX_ENTRIES

\* a call that returned failure (it did not succeed and did not raise) and
\* left bitmap and inode table consistent
Rejected(r) == ~r.ok /\ r.msg # "raised" /\ Consistent(r.fs)

\* C3: a create_file or write_file whose content needs more than 26 data
\* blocks ends with a reported failure, and leaves the inode table and the
\* bitmap mutually consistent.
C3_TooLongIsRejected ==
    /\ \A c \in Creates :
          TooLong(c[2]) => Rejected(create_file(Cur, c[1], c[2], c[3]))
    /\ \A w \in Writes :
          TooLong(w[2]) => Rejected(write_file(Cur, w[1], w[2]))

\* write_file on this file gets past its checks and needs more blocks than
\* the file holds and than the allocator has
GrowthExceedsFree(s, filename, content) ==
    LET slot == find_inode(s.inodes, filename)
        inode == s.inodes[slot]
        held == Len(all_blocks_of(s, inode))
        needed == blocks_for(content.len)
        delta == needed - held
                   + (IF needed > DIRECT_BLOCKS /\ inode.indirect_block < 0
                      THEN 1 ELSE 0)
    IN  /\ slot # -1
        /\ has_write(inode.permission)
        /\ inode.ref_count = 0
        /\ needed > held
        /\ delta > free_blocks_count(s.bits)

\* C4: when write_file needs more blocks than the file holds and the
\* allocator cannot supply the delta, the call reports insufficient space
\* and nothing changes: inodes, index blocks, stored bytes, bitmap.
\* (Stated over every write_file call the specification can take.)
C4_WriteNoSpaceUnchanged ==
    \A w \in Writes :
        LET r == write_file(Cur, w[1], w[2])
        IN  CallsLeft =>
            /\ GrowthExceedsFree(Cur, w[1], w[2])
                => ~r.ok /\ r.msg = "nospace"
            /\ r.msg = "nospace"
                => /\ r.fs = Cur
                   /\ read_file(r.fs, w[1]) = read_file(Cur, w[1])

\* a non-empty file is there, another call can be taken, and a write_file
\* on the file cannot get its delta and reports so
C4_Witness ==
    \E w \in Writes :
        /\ CallsLeft
        /\ GrowthExceedsFree(Cur, w[1], w[2])
        /\ write_file(Cur, w[1], w[2]).msg = "nospace"
        /\ inodes[find_inode(inodes, w[1])].file_size > 0

\* what read_file returns when it finds the file and its bytes are content
Reads(content) == [found |-> TRUE, data |-> BytesOf(content)]

\* C5: for every content of length 0..26*block_size, after a successful
\* create_file(name, content), read_file(name) returns exactly content.
C5_CreateThenRead ==
    \A c \in Creates :
        LET r == create_file(Cur, c[1], c[2], c[3])
        IN  ~TooLong(c[2]) /\ r.ok => read_file(r.fs, c[1]) = Reads(c[2])

\* C5 for the filenames of at most MAX_FILENAME characters
C5_CreateThenReadShortName ==
    \A c \in Creates :
        LET r == create_file(Cur, c[1], c[2], c[3])
        IN  Len(c[1]) <= MAX_FILENAME /\ r.ok
                => read_file(r.fs, c[1]) = Reads(c[2])

\* C6: after a successful write_file(name, c) on an existing file,
\* read_file(name) returns exactly c and the file holds exactly
\* max(1, ceil(len(c)/block_size)) data blocks, plus an indirect block iff
\* that number exceeds 10.
C6_WriteThenRead ==
    \A w \in Writes :
        LET r == write_file(Cur, w[1], w[2])
            inode == r.fs.inodes[find_inode(r.fs.inodes, w[1])]
            n == Max(1, CeilDiv(w[2].len, BLOCK_SIZE))
        IN  r.ok =>
                /\ read_file(r.fs, w[1]) = Reads(w[2])
                /\ Len(all_blocks_of(r.fs, inode)) = n
                /\ (inode.indirect_block >= 0) <=> (n > DIRECT_BLOCKS)

\* what a successful create_file of content allocated, seen from the state
\* before it (slot: the inode slot it took)
CreateAllocated(s, r, content) ==
    LET slot == unused_from(s.inodes, 0)
        inode == r.fs.inodes[slot]
        data == all_blocks_of(r.fs, inode)
        n == Max(1, CeilDiv(content.len, BLOCK_SIZE))
        extra == IF n > 10 THEN 1 ELSE 0
        new == RefsOf(r.fs, inode)
    IN  /\ Len(data) = n
        /\ (inode.indirect_block >= 0) <=> (n > 10)
        /\ Len(NonNeg(inode.direct_blocks)) = Min(n, 10)
        /\ Cardinality(new) = n + extra
        /\ new \subseteq DataRegion
        /\ new \cap s.bits = {}
        /\ r.fs.bits = s.bits \cup new
        /\ free_blocks_count(s.bits) - free_blocks_count(r.fs.bits) = n + extra
        /\ content.len = 10 * BLOCK_SIZE
              => inode.indirect_block = -1 /\ Len(data) = 10
        /\ content.len = 10 * BLOCK_SIZE + 1
              => /\ inode.indirect_block >= 0
                 /\ Len(NonNeg(inode.direct_blocks)) = 10
                 /\ Len(data) = 11
        /\ content.len = 100 /\ BLOCK_SIZE = 64
              => free_blocks_count(r.fs.bits) = free_blocks_count(s.bits) - 2

\* C7: a successful create_file of n bytes allocates exactly
\* max(1, ceil(n/block_size)) data blocks, and one more block, the indirect
\* index block, iff that number is greater than 10; 10*B bytes use the 10
\* direct slots only, 10*B+1 bytes use 10 direct blocks, an indirect block
\* and one indexed block, and 100 bytes lower free_blocks_count() by 2.
\* (Stated over every create_file call the specification can take.)
C7_CreateAllocatesExactly ==
    \A c \in Creates :
        LET r == create_file(Cur, c[1], c[2], c[3])
        IN  CallsLeft /\ r.ok => CreateAllocated(Cur, r, c[2])

\* one call was made and it created a file of 10*B+1 bytes, with an
\* indirect block
C7_Witness ==
    /\ ops = 1
    /\ \E i \in Slots :
          /\ inodes[i].is_used
          /\ inodes[i].file_size = 10 * BLOCK_SIZE + 1
          /\ inodes[i].indirect_block >= 0

\* C8: in every reachable state no two used inodes carry the same stored
\* filename (create_file rejects a duplicate filename, whatever its length).
C8_NoDuplicateNames ==
    \A i, j \in Slots :
        i # j /\ inodes[i].is_used /\ inodes[j].is_used
            => inodes[i].filename # inodes[j].filename

\* an inode in the unused sentinel state
Unused(inode) ==
    /\ ~inode.is_used
    /\ inode.direct_blocks = Rep(-1, DIRECT_BLOCKS)
    /\ inode.indirect_block = -1

\* C9: delete_file on a file whose ref_count > 0 reports busy and changes
\* neither the bitmap nor the inode; with ref_count 0 it succeeds, the
\* inode returns to the unused sentinel state, the free-inode counter
\* increases by one and free_blocks_count() increases by exactly the number
\* of blocks the file held (data blocks plus the indirect block if any).
C9_DeleteBusyOrFreesAll ==
    \A name \in Names :
        LET slot == find_inode(inodes, name)
            r == delete_file(Cur, name)
        IN  slot # -1 =>
              IF inodes[slot].ref_count > 0
              THEN /\ ~r.ok /\ r.msg = "busy"
                   /\ r.fs.bits = bits
                   /\ r.fs.inodes = inodes
              ELSE /\ r.ok
                   /\ Unused(r.fs.inodes[slot])
                   /\ r.fs.superblock.free_inodes = superblock.free_inodes + 1
                   /\ free_blocks_count(r.fs.bits)
                        = free_blocks_count(bits) + BlocksHeld(Cur, inodes[slot])

\* the write permission bit of the file is unset or its ref_count is not 0
WriteProtected(inode) ==
    (inode.permission \div 2) % 2 = 0 \/ inode.ref_count > 0

\* C10: write_file is rejected and leaves the file's blocks, size, stored
\* bytes and the bitmap unchanged whenever the inode's write permission bit
\* is unset or its ref_count is greater than 0; read_file on the same file
\* still succeeds.
C10_ProtectedWriteRejected ==
    \A w \in Writes :
        LET slot == find_inode(inodes, w[1])
            r == write_file(Cur, w[1], w[2])
        IN  slot # -1 /\ WriteProtected(inodes[slot]) =>
              /\ ~r.ok /\ r.msg \in {"noperm", "busy"}
              /\ r.fs = Cur
              /\ read_file(r.fs, w[1]).found
              /\ read_file(r.fs, w[1]) = read_file(Cur, w[1])

\* one file is busy, another has no write permission, and write_file is
\* rejected on both
C10_Witness ==
    \E n1, n2 \in Names :
        /\ find_inode(inodes, n1) # -1 /\ find_inode(inodes, n2) # -1
        /\ inodes[find_inode(inodes, n1)].ref_count > 0
        /\ inodes[find_inode(inodes, n1)].permission = 6
        /\ inodes[find_inode(inodes, n2)].permission = 4
        /\ write_file(Cur, n1, Content(1, 100)).msg = "busy"
        /\ write_file(Cur, n2, Content(1, 100)).msg = "noperm"

\* ------------------------------------------------ claims: BufferManager
\* the state is one from which SpecBuffer takes another call
BufCallsLeft == bops < MaxBufOps

BufLoads == BufNames \X BufBlocks
BufWrites == BufNames \X BufBlocks \X BufData

\* C11: in every reachable state of the buffer cache, whatever the order of
\* the load_block, write_block, flush_all, flush_file and invalidate_file
\* calls, at most one valid page maps to a given (filename, block number)
\* pair, and every valid page caches exactly one block.
C11_OnePagePerBlock ==
    /\ \A p, q \in Pages :
          p # q /\ pages[p].is_valid /\ pages[q].is_valid
             => <<pages[p].filename, pages[p].block_num>>
                  # <<pages[q].filename, pages[q].block_num>>
    /\ \A p \in Pages : pages[p].is_valid => pages[p].block_num >= 0

\* every page is valid, a hit and an eviction have happened, and two pages
\* cache the same block number under different filenames
C11_Witness ==
    /\ \A p \in Pages : pages[p].is_valid
    /\ hit_count > 0
    /\ miss_count > BUFFER_SIZE
    /\ \E p, q \in Pages : p # q /\ pages[p].block_num = pages[q].block_num

\* the valid page whose access_time is the smallest
Oldest(b) ==
    CHOOSE p \in Pages :
        /\ b.pages[p].is_valid
        /\ \A q \in Pages :
              q # p /\ b.pages[q].is_valid
                 => b.pages[p].access_time < b.pages[q].access_time

\* load_block(filename, block_num) misses and finds no free page
MissesFull(b, filename, block_num) ==
    /\ cached_from(b.pages, filename, block_num, 0) = -1
    /\ \A p \in Pages : b.pages[p].is_valid

\* load_block of count consecutive block numbers from first, in sequence
RECURSIVE load_sequence(_, _, _, _)
load_sequence(b, filename, first, count) ==
    IF count = 0 THEN b
    ELSE load_sequence(load_block(b, filename, first).buf, filename,
                       first + 1, count - 1)

\* block numbers no call of SpecBuffer uses
Fresh == TOTAL_BLOCKS - BUFFER_SIZE - 1

\* C12: when load_block misses and no page is free, the page evicted is
\* exactly the valid page whose most recent touch is the oldest, and every
\* other valid page keeps its identity and data; loading buffer_size+1
\* distinct blocks in sequence with no hits in between evicts the page of
\* the first block loaded.
C12_EvictsLeastRecentlyTouched ==
    BufCallsLeft =>
    /\ \A l \in BufLoads :
          LET r == load_block(BufCur, l[1], l[2])
              victim == Oldest(BufCur)
          IN  MissesFull(BufCur, l[1], l[2]) =>
                /\ \E p \in Pages :
                      /\ pages[p].is_valid
                      /\ \A q \in Pages :
                            q # p => pages[p].access_time < pages[q].access_time
                /\ \A q \in Pages : q # victim => r.buf.pages[q] = pages[q]
                /\ cached_from(r.buf.pages, pages[victim].filename,
                               pages[victim].block_num, 0) = -1
                /\ IF r.raised THEN ~r.buf.pages[victim].is_valid
                   ELSE /\ r.page_id = victim
                        /\ r.buf.pages[victim].is_valid
                        /\ r.buf.pages[victim].filename = l[1]
                        /\ r.buf.pages[victim].block_num = l[2]
    /\ LET full == load_sequence(BufCur, NameA, Fresh, BUFFER_SIZE)
           over == load_block(full, NameA, Fresh + BUFFER_SIZE).buf
       IN  /\ \A i \in 0..(BUFFER_SIZE - 1) :
                 cached_from(full.pages, NameA, Fresh + i, 0) # -1
           /\ cached_from(over.pages, NameA, Fresh, 0) = -1
           /\ \A i \in 1..BUFFER_SIZE :
                 cached_from(over.pages, NameA, Fresh + i, 0) # -1

\* the cache is full, the page touched longest ago is not the one loaded
\* first (a hit has moved that one), and a load_block that misses is next
C12_Witness ==
    /\ BufCallsLeft
    /\ \A p \in Pages : pages[p].is_valid
    /\ hit_count > 0
    /\ Oldest(BufCur) # 0
    /\ \E l \in BufLoads : MissesFull(BufCur, l[1], l[2])

\* C13: BufferManager.write_block(filename, block, data) never writes that
\* block to the block store: after it returns, the disk content of the
\* block is what it was before the call, the page caching (filename, block)
\* is valid and dirty and holds data padded or truncated to block_size, and
\* a following load_block(filename, block) returns that data as a hit.
C13_WriteIsDelayed ==
    \A w \in BufWrites :
        LET r == buffer_write_block(BufCur, w[1], w[2], w[3])
            p == cached_from(r.buf.pages, w[1], w[2], 0)
            again == load_block(r.buf, w[1], w[2])
        IN  r.ok =>
              /\ read_block(r.buf.disk, w[2]) = read_block(disk, w[2])
              /\ p # -1
              /\ r.buf.pages[p].is_dirty
              /\ r.buf.pages[p].data = Chunk(w[3], 0)
              /\ again.hit /\ again.data = Chunk(w[3], 0)

\* no dirty page caches this block number under another filename
NotAliased(b, filename, block_num) ==
    \A q \in Pages :
        b.pages[q].is_valid /\ b.pages[q].is_dirty
            /\ b.pages[q].block_num = block_num
          => b.pages[q].filename = filename

\* C13, amended: BufferManager.write_block(filename, block, data), called
\* when no dirty page caches the same block number under another filename,
\* leaves the disk content of the block what it was before the call, the
\* page caching (filename, block) valid and dirty with the data padded or
\* truncated to block_size, and a following load_block(filename, block)
\* returns that data as a hit.
C13_WriteIsDelayedNotAliased ==
    \A w \in BufWrites :
        LET r == buffer_write_block(BufCur, w[1], w[2], w[3])
            p == cached_from(r.buf.pages, w[1], w[2], 0)
            again == load_block(r.buf, w[1], w[2])
        IN  BufCallsLeft /\ r.ok /\ NotAliased(BufCur, w[1], w[2]) =>
              /\ read_block(r.buf.disk, w[2]) = read_block(disk, w[2])
              /\ p # -1
              /\ r.buf.pages[p].is_dirty
              /\ r.buf.pages[p].data = Chunk(w[3], 0)
              /\ again.hit /\ again.data = Chunk(w[3], 0)

\* a write_block has left a dirty page whose data is not what the block
\* store holds for its block, a load_block has hit, and a call is to come
C13_Witness ==
    /\ BufCallsLeft
    /\ hit_count > 0
    /\ \E p \in Pages :
          /\ pages[p].is_valid /\ pages[p].is_dirty
          /\ pages[p].data.kind = "data"
          /\ read_block(disk, pages[p].block_num) # pages[p].data

\* the pages that were dirty in b and are no longer the same dirty page in r
StoppedDirty(b, r) ==
    {p \in Pages :
        /\ b.pages[p].is_valid /\ b.pages[p].is_dirty
        /\ ~(/\ r.pages[p].is_valid /\ r.pages[p].is_dirty
             /\ r.pages[p].filename = b.pages[p].filename
             /\ r.pages[p].block_num = b.pages[p].block_num)}

\* the block store after the writes of a log
RECURSIVE apply_log(_, _)
apply_log(d, log) ==
    IF log = <<>> THEN d
    ELSE apply_log(write_block(d, Head(log)[1], Head(log)[2]), Tail(log))

\* the call that took b to r wrote back exactly the pages that stopped
\* being dirty, each once, with the block number and buffer it had
WroteBackExactly(b, r) ==
    /\ Len(r.log) = Cardinality(StoppedDirty(b, r))
    /\ r.writeback_count = b.writeback_count + Cardinality(StoppedDirty(b, r))
    /\ \A p \in StoppedDirty(b, r) :
          \E i \in 1..Len(r.log) :
              r.log[i] = <<b.pages[p].block_num, b.pages[p].data>>
    /\ \A i \in 1..Len(r.log) :
          \E p \in StoppedDirty(b, r) :
              r.log[i] = <<b.pages[p].block_num, b.pages[p].data>>
    /\ r.disk = apply_log(b.disk, r.log)

\* what every BufferManager call leaves when made in the current state
BufResults ==
    {load_block(BufCur, l[1], l[2]).buf : l \in BufLoads}
        \cup {buffer_write_block(BufCur, w[1], w[2], w[3]).buf : w \in BufWrites}
        \cup {flush_all(BufCur)}
        \cup {flush_file(BufCur, f) : f \in BufNames}
        \cup {invalidate_file(BufCur, f) : f \in BufNames}

\* C14: no dirty data is lost by the cache: whenever a dirty page stops
\* being dirty (LRU eviction, flush_all, flush_file, invalidate_file) its
\* buffer has been written to its block in the block store before the page
\* is cleared or reused, and writeback_count has increased by exactly one
\* for that page; a clean page is never written back.
C14_DirtyPagesAreWrittenBack ==
    /\ \A p \in Pages : pages[p].is_dirty => pages[p].is_valid
    /\ BufCallsLeft => \A r \in BufResults : WroteBackExactly(BufCur, r)

\* a dirty page has been written back by an eviction, and another dirty
\* page is in the cache with a call to come
C14_Witness ==
    /\ BufCallsLeft
    /\ writeback_count > 0
    /\ miss_count > BUFFER_SIZE
    /\ \E p \in Pages : pages[p].is_dirty
    /\ \E b \in DOMAIN disk : disk[b].kind = "data"

\* the valid pages of b, the block each one caches, and the LRU order
Residents(b) ==
    [valid |-> {p \in Pages : b.pages[p].is_valid},
     cached |-> [p \in Pages |-> <<b.pages[p].filename, b.pages[p].block_num,
                                  b.pages[p].data>>],
     lru_order |-> b.lru_order]

\* C15: flush_all is idempotent: after flush_all no page is dirty, and a
\* second flush_all right after it performs zero write-backs
\* (writeback_count and the block store unchanged); flush_all and
\* flush_file never evict: the set of valid pages, their identities and
\* the LRU order are the same before and after.
C15_FlushAllIdempotent ==
    BufCallsLeft =>
    LET once == flush_all(BufCur)
        twice == flush_all([once EXCEPT !.log = <<>>])
    IN  /\ \A p \in Pages : ~once.pages[p].is_dirty
        /\ twice.log = <<>>
        /\ twice.writeback_count = once.writeback_count
        /\ twice.disk = once.disk
        /\ twice = [once EXCEPT !.log = <<>>]
        /\ once.writeback_count
             = writeback_count + Cardinality({p \in Pages : pages[p].is_dirty})
        /\ Residents(once) = Residents(BufCur)
        /\ \A f \in BufNames :
              /\ Residents(flush_file(BufCur, f)) = Residents(BufCur)
              /\ \A p \in Pages :
                    flush_file(BufCur, f).pages[p].is_dirty
                       <=> pages[p].is_dirty /\ pages[p].filename # f

\* two pages of different files are dirty and a call is to come
C15_Witness ==
    /\ BufCallsLeft
    /\ \E p, q \in Pages :
          /\ pages[p].is_dirty /\ pages[q].is_dirty
          /\ pages[p].filename # pages[q].filename

\* the request has reached a terminal status
Terminal(req) == req.status \in {"COMPLETED", "FAILED"}

\* the operation of the request failed: an error message is attached or
\* the result is False
OperationFailed(req) ==
    req.error # "" \/ (req.result.kind = "bool" /\ ~req.result.ok)

\* C16: every request whose underlying FileSystem or BufferManager
\* operation fails (file not found, duplicate create, insufficient space,
\* busy, permission denied, block index out of range) ends in status FAILED
\* with the error message attached, a request ends in status COMPLETED only
\* when its operation succeeded, and wait_for_request returns true only for
\* requests whose operation succeeded; for read, write, create and delete.
C16_FailedOperationsEndFailed ==
    \A id \in DOMAIN requests :
        Terminal(requests[id]) =>
            /\ OperationFailed(requests[id]) => requests[id].status = "FAILED"
            /\ requests[id].status = "COMPLETED" => ~OperationFailed(requests[id])
            /\ wait_for_request(requests, id) => ~OperationFailed(requests[id])

\* C16 for the read requests, whose failures are exceptions that
\* _process_request catches
C16_FailedReadsEndFailed ==
    \A id \in DOMAIN requests :
        Terminal(requests[id]) /\ requests[id].io_type = "READ" =>
            /\ OperationFailed(requests[id]) <=> requests[id].status = "FAILED"
            /\ wait_for_request(requests, id) <=> requests[id].result.kind = "bytes"

\* the ids handed out so far
IssuedIds == DOMAIN requests \cup {s.req.request_id : s \in submitting}

\* C17: request ids are unique and strictly increasing in submission
\* order, and whenever the dispatch loop dequeues a request, no other
\* request waiting in the priority queue has a smaller priority value, nor
\* the same priority value with a smaller id, under any interleaving of
\* concurrent submitters.
C17_IdsIncreaseAndSmallestIsServed ==
    [][/\ request_id_counter' # request_id_counter =>
            \E s \in submitting' \ submitting :
                /\ s.req.request_id = request_id_counter'
                /\ \A i \in IssuedIds : i < s.req.request_id
                /\ IssuedIds' = IssuedIds \cup {s.req.request_id}
       /\ dispatcher' # dispatcher /\ dispatcher' # 0 =>
            LET got == <<requests[dispatcher'].priority, dispatcher'>>
            IN  /\ got \in request_queue
                /\ request_queue' = request_queue \ {got}
                /\ \A e \in request_queue : Before(got, e)
       /\ \A s \in submitting : \A id \in DOMAIN requests :
            s.req.request_id = id => s.pc = "put" /\ requests[id] = s.req
      ]_vars

\* the dispatch loop has dequeued a request submitted after one that is
\* still waiting in the queue with a larger priority value
C17_Witness ==
    /\ dispatcher # 0
    /\ \E e \in request_queue :
          e[2] < dispatcher /\ e[1] > requests[dispatcher].priority

\* a write request with priority 1 and a create request with priority 9
WriteAndCreate(w, c) ==
    /\ w \in DOMAIN requests /\ c \in DOMAIN requests
    /\ requests[w].io_type = "WRITE" /\ requests[w].priority = 1
    /\ requests[c].io_type = "CREATE" /\ requests[c].priority = 9

\* the completion callback of the request has been called
Fired(id) == \E k \in 1..Len(fired) : fired[k] = id

\* the dispatch loop has taken the request out of the priority queue
Dequeued(id) == running /\ \A e \in request_queue : e[2] # id

\* C18: if a write request with priority 1 and a create request with
\* priority 9 are both pending at the same time (both enqueued before the
\* dispatcher pops either), the completion callback of the write request
\* fires before the completion callback of the create request, for every
\* worker-pool size and every interleaving of the workers.
C18_WriteCallbackFirst ==
    \A w, c \in Ids : WriteAndCreate(w, c) /\ Fired(c) => Fired(w)

\* C18 as amended: if a write request with priority 1 and a create request
\* with priority 9 are both enqueued before the dispatcher pops either, the
\* write request is dequeued before the create request, and with a pool of
\* one worker its completion callback fires before that of the create
\* request.
C18_WriteDequeuedFirst ==
    \A w, c \in Ids :
        WriteAndCreate(w, c) =>
            /\ Dequeued(c) => Dequeued(w)
            /\ max_workers = 1 /\ Fired(c) => Fired(w)

\* with one worker, the callback of the priority-1 write has fired while
\* the priority-9 create, which was submitted before it, waits for the worker
C18_Witness ==
    \E w, c \in Ids :
        /\ WriteAndCreate(w, c)
        /\ c < w
        /\ max_workers = 1
        /\ Fired(w) /\ ~Fired(c)
        /\ \E k \in 1..Len(work_queue) : work_queue[k] = c

\* ------------------------------------------------------------------ C19
\* the step in which _scheduler_loop pops a PCB, under the lock
SelectStep == scheduler_pc = "select" /\ scheduler_pc' = "selected"

\* the step in which _run_process marks the popped PCB RUNNING
StartStep == scheduler_pc = "selected" /\ scheduler_pc' = "task"

\* a PCB of a class strictly higher than pid's is in a ready queue
HigherReady(pid) ==
    \E q \in Priority : q < processes[pid].priority /\ ready_queues[q] # <<>>

\* pid is the oldest entry of its class's ready queue, and the step removes
\* that entry and nothing else
TakesOldest(pid) ==
    LET q == processes[pid].priority
    IN  /\ ready_queues[q] # <<>>
        /\ pid = Head(ready_queues[q])
        /\ ready_queues' = [ready_queues EXCEPT ![q] = Tail(@)]

\* C19: whenever the scheduler starts a task (marks its PCB Running), no
\* PCB of a strictly higher priority class is in a ready queue at that
\* moment, and the PCB was taken from the head of its class's ready queue,
\* so that no PCB of the same class submitted earlier is still queued.
C19_StartsHighestOldest ==
    [][/\ SelectStep => TakesOldest(pcb')
       /\ StartStep => ~HigherReady(pcb)]_vars

\* C19 as amended: whenever the scheduler selects the next task (pops it
\* from a ready queue, under the lock), no PCB of a strictly higher priority
\* class is in a ready queue at that moment, and the PCB is the head of its
\* class's ready queue, so that no PCB of the same class submitted earlier
\* is still queued.
C19_SelectsHighestOldest ==
    [][SelectStep => TakesOldest(pcb') /\ ~HigherReady(pcb')]_vars

\* a MEDIUM PCB has been selected ahead of a LOW one and of a later MEDIUM
\* one, both still queued
C19_Witness ==
    /\ scheduler_pc = "selected"
    /\ processes[pcb].priority = MEDIUM
    /\ ready_queues[LOW] # <<>>
    /\ ready_queues[MEDIUM] # <<>>
    /\ pcb \notin {ready_queues[MEDIUM][k] : k \in 1..Len(ready_queues[MEDIUM])}

\* ------------------------------------------------------------------ C20
\* the PCBs in state Running
RunningIn(procs) == {pid \in DOMAIN procs : procs[pid].state = "RUNNING"}

\* C20: at every moment at most one PCB is in state Running; a task starts
\* only when no PCB is Running and no task is executing; and, whatever is
\* submitted meanwhile, the scheduler thread stays with the task it started
\* until it leaves the PCB Terminated.
C20_OneTaskAtATime ==
    [][/\ Cardinality(RunningIn(processes')) <= 1
       /\ StartStep => RunningIn(processes) = {} /\ running_pcb = 0
       /\ scheduler_pc = "task" =>
              \/ scheduler_pc' = "task" /\ pcb' = pcb /\ running_pcb' = pcb
              \/ /\ scheduler_pc' = "select"
                 /\ processes'[pcb].state = "TERMINATED"
                 /\ running_pcb' = 0]_vars

\* a LOW task is executing while a HIGH PCB waits in its ready queue and a
\* PCB that ran before it is Terminated
C20_Witness ==
    /\ scheduler_pc = "task"
    /\ processes[pcb].priority = LOW
    /\ RunningIn(processes) = {pcb}
    /\ ready_queues[HIGH] # <<>>
    /\ \E pid \in DOMAIN processes : processes[pid].state = "TERMINATED"

\* ------------------------------------------------------------------ C21
\* the items of a sequence are pairwise different
Distinct(q) == \A i, j \in 1..Len(q) : q[i] = q[j] => i = j

\* C21: with any number of concurrent writers and readers the pipe never
\* holds more than its capacity; the items accepted by write, in append
\* order, are exactly the items the reads have returned, in the order they
\* returned, followed by the buffer (nothing dropped, nothing duplicated,
\* each read returns the oldest item not yet read); and write_count -
\* read_count is the length of the buffer.
C21_BoundedFifo ==
    /\ Len(pipe_buffer) <= PipeCapacity
    /\ written = delivered \o pipe_buffer
    /\ Distinct(written)
    /\ \A t \in Threads :
          /\ pipe_threads[t].op = "write"
          /\ pipe_threads[t].pc = "idle"
          /\ pipe_threads[t].ret
          => \E k \in 1..Len(written) : written[k] = pipe_threads[t].data
    /\ write_count - read_count = Len(pipe_buffer)

\* the pipe was full with a writer blocked on it, a read has taken the
\* oldest item out, and the writer has then appended its own
C21_Witness ==
    /\ Len(pipe_buffer) = PipeCapacity
    /\ delivered # <<>>
    /\ Len(written) = PipeCapacity + 1
    /\ \E t \in Threads :
          /\ pipe_threads[t].op = "write" /\ pipe_threads[t].pc = "idle"
          /\ pipe_threads[t].ret
          /\ pipe_threads[t].data = PipeCapacity + 1
          /\ \E u \in Threads :
                pipe_threads[u].op = "read" /\ pipe_threads[u].ret # 0

\* ------------------------------------------------------------------ C22
\* thread t returns from its call in this step
Returns(t) ==
    /\ pipe_threads'[t] # pipe_threads[t]
    /\ pipe_threads'[t].pc = "idle"

DiskInputs == {-1, 0, DATA_START, TOTAL_BLOCKS - 1, TOTAL_BLOCKS,
               TOTAL_BLOCKS + 1}
\* data write_block is called with: 100 bytes (truncated to the first 64),
\* and the 36 bytes that are left of them (padded with zeros)
DiskData == {Chunk(Content(1, 100), 0), Chunk(Content(1, 100), 1)}

InRange(n) == n \in 0..(TOTAL_BLOCKS - 1)

\* read_block(n) returns exactly block_size bytes, and write_block(n, data)
\* stores data cut or padded to block_size in block n and nowhere else
InRangeExact(n) ==
    /\ ~try_read_block(disk, n).raised
    /\ try_read_block(disk, n).data.kind # "absent"
    /\ \A v \in DiskData :
          LET w == try_write_block(disk, n, v)
          IN  /\ ~w.raised
              /\ read_block(w.disk, n) = v
              /\ ValidBytes(v) <= BLOCK_SIZE
              /\ \A m \in 0..TOTAL_BLOCKS :
                    m # n => read_block(w.disk, m) = read_block(disk, m)

\* read_block(n) and write_block(n, data) raise and leave the store as it was
Fails(n) ==
    /\ try_read_block(disk, n).raised
    /\ \A v \in DiskData :
          /\ try_write_block(disk, n, v).raised
          /\ try_write_block(disk, n, v).disk = disk

\* C23: for every n outside [0, total_blocks), read_block(n) and
\* write_block(n, data) fail with an I/O error and leave the backing store
\* unchanged; for n inside the range read_block returns exactly block_size
\* bytes and write_block stores data truncated or zero-padded to block_size.
C23_BlockStoreContract ==
    \A n \in DiskInputs : IF InRange(n) THEN InRangeExact(n) ELSE Fails(n)

\* C23 for the block numbers the code does handle as stated: those inside
\* the range, and the negative ones.
C23_InRangeAndNegative ==
    \A n \in DiskInputs :
        /\ InRange(n) => InRangeExact(n)
        /\ n < 0 => Fails(n)

\* ------------------------------------------------------------------ C24
\* INode.from_bytes(inode.to_bytes(), slot) for the inode of a slot
RoundTrip(slot) ==
    INode_from_bytes(INode_to_bytes(inodes[slot]), id_byte(slot), slot)

InWindow(a) ==
    /\ a.pc \in {"body", "release"}
    /\ \/ requests[a.id].io_type = "READ"
       \/ requests[a.id].io_type = "WRITE" /\ requests[a.id].block_index >= 0

\* C25: while a read request or a one-block write request on a file is
\* between its acquire_file and its release_file, the file, if it exists,
\* has ref_count > 0, and neither delete_file nor write_file on it succeeds,
\* in every interleaving of the requests.
C25_HeldInWindow ==
    \A a \in active :
        LET filename == requests[a.id].filename
            slot == find_inode(inodes, filename)
        IN  InWindow(a) /\ slot # -1 =>
                /\ inodes[slot].ref_count > 0
                /\ ~delete_file(Cur, filename).ok
                /\ ~write_file(Cur, filename, Content(2, 100)).ok

\* ------------------------------------------------------------------ C28
\* request id is a one-block write that has completed with result True,
\* and no request that changes files has run beside it or after it
WrittenBlock(id) ==
    /\ requests[id].io_type = "WRITE"
    /\ requests[id].block_index >= 0
    /\ requests[id].status = "COMPLETED"
    /\ requests[id].result.ok
    /\ \A other \in DOMAIN requests \ {id} :
          requests[other].io_type = "READ" \/ requests[other].status = "PENDING"

\* what the block holds after the write: data[:BLOCK_SIZE], zero-padded
NewBytes(id) == Chunk(requests[id].data, 0)

\* the block a one-block async read of the written block returns
AsyncReadBlock(id) ==
    LET req == requests[id]
        slot == find_inode(inodes, req.filename)
        all_blocks == all_blocks_of(Cur, inodes[slot])
    IN  load_block(BufCur, req.filename, all_blocks[req.block_index + 1]).data

\* C28: after a one-block write request on block i of a file has completed,
\* a later async read and a later FileSystem.read_block_content /
\* read_file of the file return the new bytes of block i, whether or not
\* the dirty page has been flushed.
C28_ReadsSeeCompletedWrite ==
    \A id \in DOMAIN requests :
        WrittenBlock(id) =>
            LET req == requests[id]
            IN  /\ AsyncReadBlock(id) = NewBytes(id)
                /\ read_block_content(Cur, req.filename, req.block_index).data
                       = NewBytes(id)
                /\ read_file(Cur, req.filename).data[req.block_index + 1][1]
                       = NewBytes(id)

\* C28 for the async read alone, which does go through the cache.
C28_AsyncReadsSeeCompletedWrite ==
    \A id \in DOMAIN requests :
        WrittenBlock(id) => AsyncReadBlock(id) = NewBytes(id)

\* ------------------------------------------------------------------ C26
\* request id is a whole-file write that has completed with result True,
\* and no other request that changes files has run beside it or after it
WrittenFile(id) ==
    /\ requests[id].io_type = "WRITE"
    /\ requests[id].block_index < 0
    /\ requests[id].status = "COMPLETED"
    /\ requests[id].result.ok
    /\ \A other \in DOMAIN requests \ {id} :
          requests[other].io_type = "READ" \/ requests[other].status = "PENDING"

\* every valid page of the file holds the written content of its block
PagesHold(filename, data) ==
    LET slot == find_inode(inodes, filename)
        all_blocks == all_blocks_of(Cur, inodes[slot])
    IN  \A p \in Pages :
            pages[p].is_valid /\ pages[p].filename = filename =>
                \E k \in 1..Len(all_blocks) :
                    /\ all_blocks[k] = pages[p].block_num
                    /\ pages[p].data = Chunk(data, k - 1)

\* what a whole-file async read of the file returns
AsyncReadFile(filename) ==
    LET slot == find_inode(inodes, filename)
        all == load_all(BufCur, filename, all_blocks_of(Cur, inodes[slot]),
                        1, <<>>)
    IN  take_bytes(all.data, 1, inodes[slot].file_size)

\* C26: after a whole-file write request on a file has completed
\* successfully, every valid cache page of the file holds the newly written
\* content of its block and a following whole-file read request returns
\* exactly the written data, in every interleaving with read requests on
\* the file.
C26_CacheHoldsWrittenFile ==
    \A id \in DOMAIN requests :
        WrittenFile(id) =>
            /\ PagesHold(requests[id].filename, requests[id].data)
            /\ AsyncReadFile(requests[id].filename) = BytesOf(requests[id].data)

\* C26 with a pool of one worker, where no read runs beside the write.
C26_CacheHoldsWrittenFileOneWorker ==
    max_workers = 1 => C26_CacheHoldsWrittenFile

\* ------------------------------------------------------------------ C27
\* request id is a delete that has completed with the file deleted, and the
\* other requests that have run are reads and one-block writes
DeletedFile(id) ==
    /\ requests[id].io_type = "DELETE"
    /\ requests[id].status = "COMPLETED"
    /\ requests[id].result.ok
    /\ \A other \in DOMAIN requests \ {id} :
          \/ requests[other].io_type = "READ"
          \/ requests[other].io_type = "WRITE" /\ requests[other].block_index >= 0
          \/ requests[other].status = "PENDING"

\* C27: after a delete request on a file has completed with the file
\* deleted, no valid cache page belongs to the file, in every interleaving
\* with read and one-block write requests on the file.
C27_NoPageOfDeletedFile ==
    \A id \in DOMAIN requests :
        DeletedFile(id) =>
            \A p \in Pages :
                ~(pages[p].is_valid /\ pages[p].filename = requests[id].filename)

\* C27 with a pool of one worker, where no request runs beside the delete.
C27_NoPageOfDeletedFileOneWorker ==
    max_workers = 1 => C27_NoPageOfDeletedFile

\* ---------------------------------------------------------------- C29
TimesFired(id) == Cardinality({k \in 1..Len(fired) : fired[k] = id})

TimesQueued(id) == Cardinality({k \in 1..Len(work_queue) : work_queue[k] = id})

Executing(id) == {a \in active : a.id = id}

\* the status of request id stays, or moves PENDING -> RUNNING, or
\* RUNNING -> COMPLETED or FAILED
StatusMove(id) ==
    \/ requests'[id].status = requests[id].status
    \/ requests[id].status = "PENDING" /\ requests'[id].status = "RUNNING"
    \/ requests[id].status = "RUNNING" /\ Terminal(requests'[id])

\* a worker begins _process_request(id) in this step
Begins(id) == Executing(id) = {} /\ Executing(id)' # {}

\* the callback of request id is invoked in this step
Invoked(id) == fired' = Append(fired, id)

RequestStep ==
    /\ \A id \in DOMAIN requests : id \in DOMAIN requests' /\ StatusMove(id)
    /\ \A id \in DOMAIN requests' \ DOMAIN requests :
          requests'[id].status = "PENDING"
    /\ \A id \in DOMAIN requests :
          Begins(id) => requests[id].status = "RUNNING" /\ TimesFired(id) = 0
    /\ fired' # fired =>
          \E id \in DOMAIN requests :
              /\ Invoked(id)
              /\ TimesFired(id) = 0
              /\ Terminal(requests[id])
              /\ Executing(id) # {} /\ Executing(id)' = {}
              /\ requests' = requests
    /\ callback_errors' # callback_errors =>
          /\ requests' = requests
          /\ \E id \in DOMAIN requests :
                Invoked(id) /\ callback_errors' = callback_errors \cup {id}

RequestState ==
    \A id \in DOMAIN requests :
        /\ Cardinality(Executing(id)) + TimesQueued(id) <= 1
        /\ TimesFired(id) <= 1
        /\ TimesFired(id) = 1 => Terminal(requests[id]) /\ Executing(id) = {}
        /\ Terminal(requests[id]) /\ Executing(id) = {} => TimesFired(id) = 1
        /\ Executing(id) # {} => requests[id].status # "PENDING"

\* C29: the status of a request only moves PENDING -> RUNNING ->
\* COMPLETED or FAILED, a terminal status never changes, a request is
\* executed by at most one worker, and its callback is invoked exactly
\* once, after the terminal status is set; a callback that raises leaves
\* the status as it is
C29_RequestLifecycle == []RequestState /\ [][RequestStep]_vars

\* a read has FAILED and a create has COMPLETED, the callback of each has
\* been invoked, and the callback of the failed read raised
C29_Witness ==
    \E r, c \in DOMAIN requests :
        /\ requests[r].status = "FAILED" /\ requests[r].io_type = "READ"
        /\ requests[c].status = "COMPLETED" /\ requests[c].io_type = "CREATE"
        /\ TimesFired(r) = 1 /\ TimesFired(c) = 1
        /\ r \in callback_errors /\ c \in callback_errors
        /\ active = {}

ReadOnly(i) == inodes[i].is_used /\ ~has_write(inodes[i].permission)

\* a one-block write request on filename has completed
BlockWritesDone(filename) ==
    {id \in DOMAIN requests :
        /\ requests[id].io_type = "WRITE"
        /\ requests[id].block_index >= 0
        /\ requests[id].filename = filename
        /\ Terminal(requests[id])}

\* C31: a file whose write permission bit is unset keeps its bytes and its
\* size: write_file and modify_block_content are rejected for the missing
\* permission, every one-block write request on it is rejected, no page of
\* it is dirty and its size is the size it was created with
C31_ReadOnlyFileUnchanged ==
    \A i \in Slots :
        ReadOnly(i) =>
            /\ write_file(Cur, inodes[i].filename, Content(2, 100)).msg = "noperm"
            /\ modify_block_content(Cur, inodes[i].filename, 1,
                                    Content(2, 50)).msg = "noperm"
            /\ \A id \in BlockWritesDone(inodes[i].filename) :
                  ~requests[id].result.ok
            /\ \A p \in Pages :
                  ~(pages[p].is_valid /\ pages[p].is_dirty
                    /\ pages[p].filename = inodes[i].filename)
            /\ inodes[i].file_size = 100

\* the part of C31 about FileSystem.write_file and modify_block_content
C31_FileSystemRejects ==
    \A i \in Slots :
        ReadOnly(i) =>
            /\ write_file(Cur, inodes[i].filename, Content(2, 100)).msg = "noperm"
            /\ modify_block_content(Cur, inodes[i].filename, 1,
                                    Content(2, 50)).msg = "noperm"

\* ---------------------------------------------------------------- C32
\* the file in slot i is the same file after the step and is not smaller
KeepsSize(i) ==
    inodes[i].is_used /\ inodes'[i].is_used
        /\ inodes'[i].filename = inodes[i].filename
    => inodes'[i].file_size >= inodes[i].file_size

\* C32: no step of a one-block write makes the stored size of a file
\* smaller, also when two one-block write requests on the file run in
\* different workers
C32_SizeNeverDecreases == [][\A i \in Slots : KeepsSize(i)]_vars

\* the same with the one-block writes run one after the other
C32_SizeNeverDecreasesOneWorker ==
    [][max_workers = 1 => \A i \in Slots : KeepsSize(i)]_vars

\* ---------------------------------------------------------------- C37
\* the number of bytes in what read_file returns
RECURSIVE DataLen(_)
DataLen(data) == IF data = <<>> THEN 0 ELSE Head(data)[2] + DataLen(Tail(data))

\* the size of the file in slot i is covered by its data blocks and
\* read_file returns that many bytes
SizeCovered(s, i) ==
    /\ s.inodes[i].file_size
          <= Len(all_blocks_of(s, s.inodes[i])) * BLOCK_SIZE
    /\ DataLen(read_file(s, s.inodes[i].filename).data) = s.inodes[i].file_size

\* C37: for every used inode file_size is at most the number of its data
\* blocks times BLOCK_SIZE, and read_file returns file_size bytes
C37_SizeWithinBlocks ==
    \A i \in Slots : inodes[i].is_used => SizeCovered(Cur, i)

\* ---------------------------------------------------------------- C33
\* the step in which the task of the running PCB returns or raises
TaskEnds == scheduler_pc = "task" /\ scheduler_pc' # "task"

\* the except and finally blocks leave the PCB TERMINATED with the value or
\* the error as its result, and the loop goes on
TaskOutcomeStored ==
    TaskEnds =>
        /\ processes'[pcb].state = "TERMINATED"
        /\ processes'[pcb].result \in {"value", "Error"}
        /\ scheduler_pc' = "select"
        /\ scheduler_running'

PcbMove(pid) ==
    \/ processes'[pid].state = processes[pid].state
    \/ processes[pid].state = "NEW" /\ processes'[pid].state = "READY"
    \/ processes[pid].state = "READY" /\ processes'[pid].state = "RUNNING"
    \/ processes[pid].state = "RUNNING" /\ processes'[pid].state = "TERMINATED"

\* the ready queues hold pid
Queued(pid) ==
    \E q \in Priority : \E k \in 1..Len(ready_queues[q]) : ready_queues[q][k] = pid

\* C34: the state of a PCB only moves NEW -> READY -> RUNNING -> TERMINATED,
\* and a TERMINATED PCB keeps its state and is not put in a ready queue
\* again, whatever create_process and submit_process calls are made
C34_PcbLifecycle ==
    [][\A pid \in DOMAIN processes :
          /\ PcbMove(pid)
          /\ processes[pid].state = "TERMINATED" /\ ~Queued(pid) => ~Queued(pid)']_vars

\* ---------------------------------------------------------------- C35
\* the FileSystem after the disk of s is mounted again
Remounted(s) == mount(s).fs

\* the mounted bitmap is the bitmap in memory
SameBitmap(s) == Remounted(s).bits = s.bits

\* the mounted inode table has the used flags, filenames, sizes, ref_counts
\* and block lists of the table in memory
SameInodes(s) ==
    \A i \in Slots :
        LET m == Remounted(s).inodes[i]
            n == s.inodes[i]
        IN  /\ m.is_used = n.is_used
            /\ m.filename = n.filename
            /\ m.file_size = n.file_size
            /\ m.ref_count = n.ref_count
            /\ m.direct_blocks = n.direct_blocks
            /\ m.indirect_block = n.indirect_block

\* the mounted superblock counts the free blocks of the bitmap in memory
\* and the unused inodes of the table in memory
SameCounters(s) ==
    /\ Remounted(s).superblock.free_blocks = free_blocks_count(s.bits)
    /\ Remounted(s).superblock.free_inodes
          = Cardinality({i \in Slots : ~s.inodes[i].is_used})

\* C35: after any sequence of completed FileSystem operations, mounting the
\* disk again yields the bitmap, the inode table and the free counters of
\* the FileSystem in memory
C35_MountReproducesMemory ==
    SameBitmap(Cur) /\ SameInodes(Cur) /\ SameCounters(Cur)

\* ---------------------------------------------------------------- C36
\* the block of page p is a data block of the used inode named as the page
OwnedByItsFile(p) ==
    \E i \in Slots :
        /\ inodes[i].is_used
        /\ inodes[i].filename = pages[p].filename
        /\ \E k \in 1..Len(all_blocks_of(Cur, inodes[i])) :
              all_blocks_of(Cur, inodes[i])[k] = pages[p].block_num

\* C36: every dirty valid page refers to a block that the used inode of
\* the page's file references, in every interleaving of the requests
C36_DirtyPagesAreOwned ==
    \A p \in Pages :
        pages[p].is_valid /\ pages[p].is_dirty => OwnedByItsFile(p)

\* the same with the requests run one after the other
C36_DirtyPagesAreOwnedOneWorker == max_workers = 1 => C36_DirtyPagesAreOwned

\* ---------------------------------------------------------------- C38
\* the block numbers the inode references: its direct blocks, its index
\* block and the entries of the index block
Referenced(s, inode) ==
    all_blocks_of(s, inode)
        \o (IF inode.indirect_block >= 0 THEN <<inode.indirect_block>> ELSE <<>>)

\* every block number referenced by the used inodes, slot by slot
RECURSIVE ReferencedFrom(_, _)
ReferencedFrom(s, i) ==
    IF i >= MAX_INODES THEN <<>>
    ELSE (IF s.inodes[i].is_used THEN Referenced(s, s.inodes[i]) ELSE <<>>)
            \o ReferencedFrom(s, i + 1)

NoBlockTwice(s) ==
    LET all == ReferencedFrom(s, 0)
    IN  \A j, k \in 1..Len(all) : all[j] = all[k] => j = k

InDataRegion(s) ==
    LET all == ReferencedFrom(s, 0)
    IN  \A j \in 1..Len(all) : all[j] \in DataRegion

UnusedAreBlank(s) ==
    \A i \in Slots :
        ~s.inodes[i].is_used =>
            /\ s.inodes[i].direct_blocks = Rep(-1, DIRECT_BLOCKS)
            /\ s.inodes[i].indirect_block = -1

\* C38: no block number is referenced twice by the used inodes, every
\* referenced block lies in the data region, and an unused inode has all
\* its block fields equal to -1
C38_BlocksDisjoint ==
    NoBlockTwice(Cur) /\ InDataRegion(Cur) /\ UnusedAreBlank(Cur)

\* the part of C38 about unused inodes
C38_UnusedAreBlank == UnusedAreBlank(Cur)

\* ------------------------------------------------------------------ C39
\* the recency structure holds exactly the ids of the valid pages, each once
LruIsValidPages ==
    /\ \A p \in Pages : pages[p].is_valid <=>
                            (\E i \in 1..Len(lru_order) : lru_order[i] = p)
    /\ \A i, j \in 1..Len(lru_order) :
           lru_order[i] = lru_order[j] => i = j
    /\ \A i \in 1..Len(lru_order) : lru_order[i] \in Pages

\* a dirty page is valid
DirtyIsValid == \A p \in Pages : pages[p].is_dirty => pages[p].is_valid

\* the number of valid pages is at most buffer_size
ValidWithinSize ==
    Cardinality({p \in Pages : pages[p].is_valid}) <= BUFFER_SIZE

\* a load_block that returns (it does not raise) returns a page, not None
LoadFindsPage ==
    \A filename \in BufNames, block_num \in BufBlocks :
        LET r == load_block(BufCur, filename, block_num)
        IN  ~r.raised => /\ r.page_id \in Pages
                         /\ r.buf.pages[r.page_id].is_valid
                         /\ r.buf.pages[r.page_id].block_num = block_num
                         /\ r.buf.pages[r.page_id].filename = filename

\* C39: in every reachable state of the buffer cache the recency structure
\* contains exactly the ids of the valid pages, each once; a dirty page is
\* valid; the number of valid pages is at most buffer_size; and load_block
\* finds a free page or a victim and never returns the failure result None
C39_BufferInvariants ==
    LruIsValidPages /\ DirtyIsValid /\ ValidWithinSize /\ LoadFindsPage

\* every page is valid, one is dirty, a load has evicted a page, and the
\* next load of a block that is not cached must choose a victim
C39_Witness ==
    /\ \A p \in Pages : pages[p].is_valid
    /\ \E p \in Pages : pages[p].is_dirty
    /\ miss_count > BUFFER_SIZE
    /\ find_free_page(BufCur) = -1
    /\ \E filename \in BufNames, block_num \in BufBlocks :
           /\ block_num >= 0
           /\ cached_from(pages, filename, block_num, 0) = -1

\* ----------------------------------------------------------- lock actions
LockFrame == UNCHANGED <<fsvars, bufvars, asyncvars, schedvars, pipevars>>

\* the thread that holds the lock; 0: nobody
LockOwner(lock) ==
    IF \E t \in LockThreadIds : \E i \in 1..Len(lock_held[t]) :
           lock_held[t][i] = lock
    THEN CHOOSE t \in LockThreadIds : \E i \in 1..Len(lock_held[t]) :
             lock_held[t][i] = lock
    ELSE 0

\* the thread is at an acquire of a lock another thread holds
LockBlocked(t) ==
    /\ lock_prog[t] # <<>>
    /\ Head(lock_prog[t])[1] = "acquire"
    /\ LockOwner(Head(lock_prog[t])[2]) \notin {0, t}

\* a thread outside every call begins one
BeginCall ==
    \E t \in LockThreadIds, call \in LockCalls :
        /\ lock_calls < MaxLockCalls
        /\ lock_prog[t] = <<>>
        /\ lock_prog' = [lock_prog EXCEPT ![t] = call]
        /\ lock_calls' = lock_calls + 1
        /\ UNCHANGED <<lock_held, lock_order>>
        /\ LockFrame

\* RLock.acquire: the lock is free, or the thread holds it already
AcquireLock ==
    \E t \in LockThreadIds :
        /\ lock_prog[t] # <<>>
        /\ Head(lock_prog[t])[1] = "acquire"
        /\ ~LockBlocked(t)
        /\ LET lock == Head(lock_prog[t])[2]
           IN  /\ lock_held' = [lock_held EXCEPT ![t] = Append(@, lock)]
               /\ lock_order' = lock_order \cup
                      {<<lock_held[t][i], lock>> : i \in
                           {j \in 1..Len(lock_held[t]) : lock_held[t][j] # lock}}
        /\ lock_prog' = [lock_prog EXCEPT ![t] = Tail(@)]
        /\ UNCHANGED lock_calls
        /\ LockFrame

\* RLock.release at the end of the `with` statement: the lock taken last
ReleaseLock ==
    \E t \in LockThreadIds :
        /\ lock_prog[t] # <<>>
        /\ Head(lock_prog[t])[1] = "release"
        /\ lock_held[t] # <<>>
        /\ lock_held[t][Len(lock_held[t])] = Head(lock_prog[t])[2]
        /\ lock_held' = [lock_held EXCEPT ![t] = SubSeq(@, 1, Len(@) - 1)]
        /\ lock_prog' = [lock_prog EXCEPT ![t] = Tail(@)]
        /\ UNCHANGED <<lock_order, lock_calls>>
        /\ LockFrame

NextLocks == BeginCall \/ AcquireLock \/ ReleaseLock

SpecLocks == Init /\ [][NextLocks]_vars

\* ------------------------------------------------------------------ C40
\* the locks that can be reached from `lock` along the pairs of lock_order
RECURSIVE TakenAfter(_, _)
TakenAfter(seen, n) ==
    IF n = 0 THEN seen
    ELSE TakenAfter(seen \cup {p[2] : p \in {q \in lock_order : q[1] \in seen}},
                    n - 1)

\* no lock is taken, directly or through other locks, while it is held
LockOrderAcyclic ==
    \A lock \in Locks :
        lock \notin TakenAfter({p[2] : p \in {q \in lock_order : q[1] = lock}},
                               Cardinality(Locks))

\* a set of threads each waiting for a lock that a thread of the set holds
CircularWait ==
    \E S \in SUBSET LockThreadIds :
        /\ S # {}
        /\ \A t \in S : /\ LockBlocked(t)
                        /\ LockOwner(Head(lock_prog[t])[2]) \in S

\* C40: the file-system, buffer-cache, block-store and dispatcher locks are
\* always acquired in an acyclic order, and no interleaving of the calls of
\* workers, the dispatch thread and client threads reaches a state in which
\* threads wait on each other's locks forever
C40_NoLockCycle ==
    /\ LockOrderAcyclic
    /\ ~CircularWait
    /\ (\E t \in LockThreadIds : lock_prog[t] # <<>>)
           => \E t \in LockThreadIds : lock_prog[t] # <<>> /\ ~LockBlocked(t)

\* a thread inside a FileSystem method holds its lock and the block store's
\* while another thread, holding the buffer-cache lock twice, waits for the
\* block store; both nestings have been recorded
C40_Witness ==
    \E t, u \in LockThreadIds :
        /\ lock_held[t] = <<"fs", "disk">>
        /\ lock_held[u] = <<"buffer", "buffer">>
        /\ LockBlocked(u)
        /\ {<<"fs", "disk">>, <<"buffer", "disk">>} \subseteq lock_order

====
